---- MODULE Spec2Model ----
(***************************************************************************)
(* Dirty-state synchronization engine of the note canvas client            *)
(* (src/public/app.js, lines 1-964) together with the batch endpoint of    *)
(* the proxy (src/server.js handleBatchUpdate) that answers it.            *)
(*                                                                         *)
(* The event loop is single threaded: every handler below runs to its      *)
(* first await (or to its end) as one atomic step.  flushAllDirty has one  *)
(* await, the batch request, so it is two steps: the part that sends the   *)
(* request and the continuation that reconciles the response.              *)
(***************************************************************************)
EXTENDS Integers, Sequences, FiniteSets, TLC

\* ---- bounds of the model ------------------------------------------------
MaxNotes == 2      \* notes on the canvas
MaxVal == 2        \* distinct pixel values / texts an edit can produce
MaxEdits == 2      \* local mutations (drag, resize, input) in one run
MaxSends == 2      \* batch requests sent in one run
MaxRetryEdits == 1 \* the same two budgets for the run that exhausts the retries
MaxRetrySends == 4
MaxRecoveryEdits == 2 \* and for the run that unloads and reloads the page
MaxRecoverySends == 1
MaxClock == 7      \* minutes on the clock
MaxLoads == 1      \* page loads after the first
MaxRecords == 21   \* records in one batch request to the proxy
TickMs == 10000     \* ms that pass in one step of the clock of the sync timer
MaxListed == 3      \* records of the table in the runs that list it
MaxDeleteEdits == 2 \* local mutations in the runs with delete clicks
MaxDeleteSends == 1 \* batch requests in those runs
MaxDeletes == 1     \* DELETE requests of the page awaiting their answer at a time
LegacyTickMs == 1500    \* ms that pass in one step of the clock of the content timers
MaxLegacyEdits == 2     \* local mutations in the runs of the legacy client
MaxLegacySends == 2     \* timer callbacks and saveAll calls in those runs

\* ---- program constants --------------------------------------------------
SYNC_DEBOUNCE_MS == 30000
SAVE_DEBOUNCE_MS == 3000
MAX_SYNC_RETRIES == 3

Notes == 1..MaxNotes
Val == 1..MaxVal
Undefined == 0     \* a property that is absent from a position object
Null == 0          \* syncTimer / saveTimeoutTimer === null
NaN == -1          \* parseInt('') of a style property that was never set
JSONNull == -2     \* null in a parsed JSON text

Texts == [v \in Val |-> IF v = 1 THEN "a" ELSE IF v = 2 THEN "b" ELSE "c"]

PosFields == {"Position X", "Position Y", "Size W", "Size H"}
ContentFields == {"Anteckningar", "Område"}
AllFields == PosFields \cup ContentFields

\* String(n) of a non-negative integer: its decimal digits
Digits == <<"0", "1", "2", "3", "4", "5", "6", "7", "8", "9">>
RECURSIVE String(_)
String(v) == IF v = NaN THEN "NaN"
             ELSE IF v = JSONNull THEN "null"
             ELSE IF v < 10 THEN Digits[v + 1]
             ELSE String(v \div 10) \o Digits[(v % 10) + 1]

\* el.style.width.replace('px', '') when parseInt of it is v
Px(v) == IF v = NaN THEN "" ELSE String(v)

\* a === b for numbers and undefined
StrictEquals(a, b) == a # NaN /\ a = b

VARIABLES
  notes,                   \* state.notes: id -> fields (the client's copy)
  cache,                   \* localStorage[CACHE_KEY]
  store,                   \* the backing table: id -> fields
  dirtyPositions,          \* state.dirtyPositions: id -> {x, y, w, h}
  dirtyContent,            \* state.dirtyContent: id -> {field: value}
  saving,                  \* state.saving
  syncTimer,               \* TRUE iff the sync timer is pending
  saveTimeoutTimer,        \* id of the timer held by saveTimeoutTimer, or Null
  armedTimeouts,           \* safety timeouts that are pending (by invocation)
  consecutiveSyncFailures,
  persisted,               \* localStorage[DIRTY_KEY] (present = FALSE: no item)
  flights,                 \* flushAllDirty invocations awaiting api()
  ev,                      \* what the last step did: the exit flushAllDirty took
                           \* ("sent", "busy", "empty"), how an invocation ended
                           \* ("synced", "partial", "catch", "timeout"), the
                           \* proxy's step ("server"), what restoreDirtyState found
                           \* ("loaded", "stale", "restored"), or "edit" for the rest
  done,                    \* the invocation whose continuation just ran, or NoFlight
  nEdits,                  \* local mutations so far
  nSends,                  \* flushAllDirty invocations that sent a request so far
  reqs,                    \* batch requests sent since the last user action
  allFailed,               \* no fully successful response since that action
  revived,                 \* that action found the retries exhausted, a ledger
                           \* to send and no flush running
  armedFor,                \* ms since scheduleBatchSync was called last (capped)
  idleFor,                 \* ms since the last local mutation (capped)
  now,                     \* Date.now(), in minutes
  page,                    \* "running", "unloaded", or "loading" (loadNotes awaits)
  nLoads,                  \* page loads after the first
  unload,                  \* what the last beforeunload handler did, in order
  beacon,                  \* the sendBeacon payload on its way to the proxy
  NOTE_PASSWORD,           \* process.env.NOTE_PASSWORD of the proxy
  req,                     \* the request the proxy handled last
  res,                     \* its response
  calls,                   \* the store requests the proxy issued for it, in order
  deletes,                 \* DELETE requests of the client awaiting their answer
  contentTimers,           \* legacy client: contentTimers, note id -> timer handle
  contentTimeouts,         \* legacy client: the setTimeout callbacks that are pending
  patches,                 \* legacy client: PATCH /api/notes/:id requests awaiting
  beacons                  \* legacy client: the sendBeacon calls of beforeunload, in order

vars == <<notes, cache, store, dirtyPositions, dirtyContent, saving, syncTimer,
          saveTimeoutTimer, armedTimeouts, consecutiveSyncFailures, persisted,
          flights, ev, done, nEdits, nSends, reqs, allFailed, revived, armedFor, idleFor,
          now, page, nLoads, unload, beacon, NOTE_PASSWORD, req, res, calls, deletes,
          contentTimers, contentTimeouts, patches, beacons>>

NoPos == [x |-> Undefined, y |-> Undefined, w |-> Undefined, h |-> Undefined]
EmptyFields == [f \in AllFields |-> ""]
EmptyMap == [n \in {} |-> 0]

\* Map.delete for every key of a set
Without(m, ks) == [k \in (DOMAIN m) \ ks |-> m[k]]
\* Map.set
MapSet(m, k, v) == [j \in (DOMAIN m) \cup {k} |-> IF j = k THEN v ELSE m[j]]
\* Object.assign(target, src)
Assign(t, s) == [k \in (DOMAIN t) \cup (DOMAIN s) |-> IF k \in DOMAIN s THEN s[k] ELSE t[k]]

\* the item under DIRTY_KEY; of: the live position map it was written from
NoRecord == [present |-> FALSE, positions |-> EmptyMap, content |-> EmptyMap, ts |-> 0,
             of |-> EmptyMap]

NoBeacon == [present |-> FALSE, sentPositions |-> EmptyMap, sentContent |-> EmptyMap]

NoFlight == [fid |-> 0, sentPositions |-> EmptyMap, sentContent |-> EmptyMap,
             phase |-> "none", ok |-> FALSE, records |-> {}, errors |-> FALSE, edited |-> {}]

LedgerEmpty == DOMAIN dirtyPositions = {} /\ DOMAIN dirtyContent = {}

\* the elements of a sequence
Range(seq) == {seq[k] : k \in DOMAIN seq}

\* a JavaScript value that is undefined or a string
JSUndefined == [type |-> "undefined", str |-> ""]
Str(text) == [type |-> "string", str |-> text]

NoReq == [route |-> "", id |-> 0, password |-> JSUndefined, records |-> <<>>]
NoRes == [status |-> 0, records |-> <<>>, errors |-> <<>>, fields |-> EmptyMap]

\* the page and the store once the notes are loaded
InitClient ==
  /\ notes = [n \in Notes |-> EmptyFields]
  /\ cache = notes
  /\ store = [n \in Notes |-> EmptyFields]
  /\ dirtyPositions = EmptyMap
  /\ dirtyContent = EmptyMap
  /\ saving = FALSE
  /\ syncTimer = FALSE
  /\ saveTimeoutTimer = Null
  /\ armedTimeouts = {}
  /\ consecutiveSyncFailures = 0
  /\ persisted = NoRecord
  /\ flights = {}
  /\ ev = "init"
  /\ done = NoFlight
  /\ nEdits = 0
  /\ nSends = 0
  /\ reqs = 0
  /\ allFailed = TRUE
  /\ revived = FALSE
  /\ armedFor = 0
  /\ idleFor = 0
  /\ now = 1
  /\ page = "running"
  /\ nLoads = 0
  /\ unload = <<>>
  /\ beacon = NoBeacon
  /\ req = NoReq
  /\ res = NoRes
  /\ calls = <<>>
  /\ deletes = {}
  /\ contentTimers = EmptyMap
  /\ contentTimeouts = {}
  /\ patches = {}
  /\ beacons = <<>>

Init == InitClient /\ NOTE_PASSWORD = Str("pw")

\* ---- helpers of flushAllDirty ---------------------------------------------

PosOf(pos, F) == CASE F = "Position X" -> pos.x
                   [] F = "Position Y" -> pos.y
                   [] F = "Size W" -> pos.w
                   [] F = "Size H" -> pos.h

\* a merge that takes the content fields only of notes without a position entry
MergedFieldsFirstMapWins(sentPositions, sentContent, id) ==
  LET pos == IF id \in DOMAIN sentPositions THEN sentPositions[id] ELSE NoPos
      fields == [F \in {G \in PosFields : PosOf(pos, G) # Undefined} |-> String(PosOf(pos, F))]
  IN IF id \in DOMAIN sentContent /\ id \notin DOMAIN sentPositions
     THEN Assign(fields, sentContent[id]) ELSE fields

\* the fields of the record that flushAllDirty builds for note id
MergedFields(sentPositions, sentContent, id) ==
  LET pos == IF id \in DOMAIN sentPositions THEN sentPositions[id] ELSE NoPos
      fields == [F \in {G \in PosFields : PosOf(pos, G) # Undefined} |-> String(PosOf(pos, F))]
  IN IF id \in DOMAIN sentContent THEN Assign(fields, sentContent[id]) ELSE fields

\* ids of the records array
RecordIds(sentPositions, sentContent) == (DOMAIN sentPositions) \cup (DOMAIN sentContent)

\* the comparison of the client that tracked {x, y} only
PosCleanXY(currentPos, sentPos) ==
  StrictEquals(currentPos.x, sentPos.x) /\ StrictEquals(currentPos.y, sentPos.y)

\* currentPos.x === sentPos.x && ... && currentPos.h === sentPos.h
PosClean(currentPos, sentPos) ==
  /\ StrictEquals(currentPos.x, sentPos.x) /\ StrictEquals(currentPos.y, sentPos.y)
  /\ StrictEquals(currentPos.w, sentPos.w) /\ StrictEquals(currentPos.h, sentPos.h)

\* the allFieldsClean loop over Object.keys(sentFields)
AllFieldsClean(currentFields, sentFields) ==
  \A key \in DOMAIN sentFields :
    key \in DOMAIN currentFields /\ currentFields[key] = sentFields[key]

\* JSON.stringify of a position object, as the object JSON.parse makes of the
\* text: undefined properties are left out, NaN is written as null
PosKeys == {"x", "y", "w", "h"}
PosGet(pos, k) == CASE k = "x" -> pos.x [] k = "y" -> pos.y [] k = "w" -> pos.w [] k = "h" -> pos.h
JSONPos(pos) ==
  [k \in {j \in PosKeys : PosGet(pos, j) # Undefined} |->
     IF PosGet(pos, k) = NaN THEN JSONNull ELSE PosGet(pos, k)]

\* the position object that the parsed text is
ParsedPos(obj) ==
  [x |-> IF "x" \in DOMAIN obj THEN obj["x"] ELSE Undefined,
   y |-> IF "y" \in DOMAIN obj THEN obj["y"] ELSE Undefined,
   w |-> IF "w" \in DOMAIN obj THEN obj["w"] ELSE Undefined,
   h |-> IF "h" \in DOMAIN obj THEN obj["h"] ELSE Undefined]

\* persistDirtyState: the item written under DIRTY_KEY for a ledger
PersistDirtyState(dp, dc) ==
  IF DOMAIN dp = {} /\ DOMAIN dc = {} THEN NoRecord
  ELSE [present |-> TRUE, positions |-> [id \in DOMAIN dp |-> JSONPos(dp[id])],
        content |-> dc, ts |-> now, of |-> dp]

\* the ghost mark "field F of note n was edited while this request was out"
MarkEdited(fs, n, Fs) == {[f EXCEPT !.edited = @ \cup {<<n, F>> : F \in Fs}] : f \in fs}

\* ---- local mutations ------------------------------------------------------

\* a drag handler that writes a fresh {x, y} entry
DragEndOverwrites(n, x, y) ==
  /\ dirtyPositions' = MapSet(dirtyPositions, n, [NoPos EXCEPT !.x = x, !.y = y])
  /\ notes' = [notes EXCEPT ![n] = Assign(@, [F \in {"Position X", "Position Y"} |->
                                   IF F = "Position X" THEN String(x) ELSE String(y)])]
  /\ cache' = notes'
  /\ consecutiveSyncFailures' = 0
  /\ syncTimer' = TRUE
  /\ flights' = MarkEdited(flights, n, {"Position X", "Position Y"})
  /\ nEdits' = nEdits + 1
  /\ ev' = "edit" /\ done' = NoFlight
  /\ UNCHANGED <<store, dirtyContent, saving, saveTimeoutTimer, armedTimeouts, persisted, nSends>>

\* setupNoteDrag, onUp
DragEnd(n, x, y) ==
  /\ LET existing == IF n \in DOMAIN dirtyPositions THEN dirtyPositions[n] ELSE NoPos
     IN dirtyPositions' = MapSet(dirtyPositions, n, [existing EXCEPT !.x = x, !.y = y])
  /\ notes' = [notes EXCEPT ![n] = Assign(@, [F \in {"Position X", "Position Y"} |->
                                   IF F = "Position X" THEN String(x) ELSE String(y)])]
  /\ cache' = notes'
  /\ consecutiveSyncFailures' = 0
  /\ syncTimer' = TRUE
  /\ flights' = MarkEdited(flights, n, {"Position X", "Position Y"})
  /\ nEdits' = nEdits + 1
  /\ ev' = "edit" /\ done' = NoFlight
  /\ UNCHANGED <<store, dirtyContent, saving, saveTimeoutTimer, armedTimeouts, persisted, nSends>>

\* setupNoteResize, onUp
ResizeEnd(n, w, h) ==
  /\ LET existing == IF n \in DOMAIN dirtyPositions THEN dirtyPositions[n] ELSE NoPos
     IN dirtyPositions' = MapSet(dirtyPositions, n, [existing EXCEPT !.w = w, !.h = h])
  /\ notes' = [notes EXCEPT ![n] = Assign(@, [F \in {"Size W", "Size H"} |->
                                   IF F = "Size W" THEN Px(w) ELSE Px(h)])]
  /\ cache' = notes'
  /\ consecutiveSyncFailures' = 0
  /\ syncTimer' = TRUE
  /\ flights' = MarkEdited(flights, n, {"Size W", "Size H"})
  /\ nEdits' = nEdits + 1
  /\ ev' = "edit" /\ done' = NoFlight
  /\ UNCHANGED <<store, dirtyContent, saving, saveTimeoutTimer, armedTimeouts, persisted, nSends>>

\* a debounceSaveContent that replaces the pending entry by the new fields
DebounceSaveContentReplaces(noteId, fields) ==
  /\ dirtyContent' = MapSet(dirtyContent, noteId, fields)
  /\ cache' = notes'
  /\ consecutiveSyncFailures' = 0
  /\ syncTimer' = TRUE
  /\ flights' = MarkEdited(flights, noteId, DOMAIN fields)
  /\ nEdits' = nEdits + 1
  /\ UNCHANGED <<store, dirtyPositions, saving, saveTimeoutTimer, armedTimeouts, persisted, nSends>>

\* debounceSaveContent(noteId, fields)
DebounceSaveContent(noteId, fields) ==
  /\ LET existing == IF noteId \in DOMAIN dirtyContent THEN dirtyContent[noteId] ELSE EmptyMap
     IN dirtyContent' = MapSet(dirtyContent, noteId, Assign(existing, fields))
  /\ cache' = notes'
  /\ consecutiveSyncFailures' = 0
  /\ syncTimer' = TRUE
  /\ flights' = MarkEdited(flights, noteId, DOMAIN fields)
  /\ nEdits' = nEdits + 1
  /\ UNCHANGED <<store, dirtyPositions, saving, saveTimeoutTimer, armedTimeouts, persisted, nSends>>

\* the textarea's input listener (setupNoteContentEditing, setupNoteLockClick)
ContentInput(n, v) ==
  /\ notes' = [notes EXCEPT ![n]["Anteckningar"] = Texts[v]]
  /\ DebounceSaveContent(n, [F \in {"Anteckningar"} |-> Texts[v]])
  /\ ev' = "edit" /\ done' = NoFlight

\* debounceSaveContent called with any field set (the function's contract,
\* beyond the one field the textarea passes)
ContentEdit(n, fields) ==
  /\ notes' = [notes EXCEPT ![n] = Assign(@, fields)]
  /\ DebounceSaveContent(n, fields)
  /\ ev' = "edit" /\ done' = NoFlight

\* ---- flushAllDirty: from the call to the await ----------------------------

\* flushAllDirty gets past both early returns
WouldSend == ~LedgerEmpty /\ ~saving

\* which of its three exits a call of flushAllDirty takes
FlushEvent == IF WouldSend THEN "sent" ELSE IF LedgerEmpty THEN "empty" ELSE "busy"

\* flushAllDirty without the safety timeout
FlushAllDirtyNoSafetyTimeout ==
  IF LedgerEmpty
  THEN /\ syncTimer' = FALSE
       /\ UNCHANGED <<saving, saveTimeoutTimer, armedTimeouts, flights, nSends>>
  ELSE IF saving
  THEN /\ syncTimer' = TRUE
       /\ UNCHANGED <<saving, saveTimeoutTimer, armedTimeouts, flights, nSends>>
  ELSE /\ syncTimer' = FALSE
       /\ saving' = TRUE
       /\ nSends' = nSends + 1
       /\ flights' = flights \cup {[fid |-> nSends + 1,
                                    sentPositions |-> dirtyPositions,
                                    sentContent |-> dirtyContent,
                                    phase |-> "sent",
                                    ok |-> FALSE, records |-> {}, errors |-> FALSE,
                                    edited |-> {}]}
       /\ UNCHANGED <<saveTimeoutTimer, armedTimeouts>>

\* flushAllDirty with the collision branch of the first client: if
\* (state.saving) return, which leaves no timer behind
FlushAllDirtyDropsCollision ==
  IF LedgerEmpty \/ saving
  THEN /\ syncTimer' = FALSE
       /\ UNCHANGED <<saving, saveTimeoutTimer, armedTimeouts, flights, nSends>>
  ELSE /\ syncTimer' = FALSE
       /\ saving' = TRUE
       /\ nSends' = nSends + 1
       /\ flights' = flights \cup {[fid |-> nSends + 1,
                                    sentPositions |-> dirtyPositions,
                                    sentContent |-> dirtyContent,
                                    phase |-> "sent",
                                    ok |-> FALSE, records |-> {}, errors |-> FALSE,
                                    edited |-> {}]}
       /\ saveTimeoutTimer' = nSends + 1
       /\ armedTimeouts' = armedTimeouts \cup {nSends + 1}

\* flushAllDirty that schedules another flush when it finds nothing to send
FlushReschedulesWhenEmpty(dp, dc) ==
  IF DOMAIN dp = {} /\ DOMAIN dc = {}
  THEN /\ syncTimer' = TRUE
       /\ UNCHANGED <<saving, saveTimeoutTimer, armedTimeouts, flights, nSends>>
  ELSE IF saving
  THEN /\ syncTimer' = TRUE
       /\ UNCHANGED <<saving, saveTimeoutTimer, armedTimeouts, flights, nSends>>
  ELSE /\ syncTimer' = FALSE
       /\ saving' = TRUE
       /\ nSends' = nSends + 1
       /\ flights' = flights \cup {[fid |-> nSends + 1,
                                    sentPositions |-> dp,
                                    sentContent |-> dc,
                                    phase |-> "sent",
                                    ok |-> FALSE, records |-> {}, errors |-> FALSE,
                                    edited |-> {}]}
       /\ saveTimeoutTimer' = nSends + 1
       /\ armedTimeouts' = armedTimeouts \cup {nSends + 1}

\* flushAllDirty when the ledger maps are dp and dc
Flush(dp, dc) ==
  IF DOMAIN dp = {} /\ DOMAIN dc = {}
  THEN /\ syncTimer' = FALSE
       /\ UNCHANGED <<saving, saveTimeoutTimer, armedTimeouts, flights, nSends>>
  ELSE IF saving
  THEN /\ syncTimer' = TRUE
       /\ UNCHANGED <<saving, saveTimeoutTimer, armedTimeouts, flights, nSends>>
  ELSE /\ syncTimer' = FALSE
       /\ saving' = TRUE
       /\ nSends' = nSends + 1
       /\ flights' = flights \cup {[fid |-> nSends + 1,
                                    sentPositions |-> dp,
                                    sentContent |-> dc,
                                    phase |-> "sent",
                                    ok |-> FALSE, records |-> {}, errors |-> FALSE,
                                    edited |-> {}]}
       /\ saveTimeoutTimer' = nSends + 1
       /\ armedTimeouts' = armedTimeouts \cup {nSends + 1}

FlushAllDirty == Flush(dirtyPositions, dirtyContent)

\* the sync timer set by scheduleBatchSync fires
SyncTimerFire ==
  /\ syncTimer
  /\ FlushAllDirty
  /\ ev' = FlushEvent /\ done' = NoFlight
  /\ UNCHANGED <<notes, cache, store, dirtyPositions, dirtyContent,
                 consecutiveSyncFailures, persisted, nEdits>>

\* a save button that only schedules the flush, as an edit does
SaveAllScheduled ==
  /\ consecutiveSyncFailures' = 0
  /\ syncTimer' = TRUE
  /\ ev' = "busy" /\ done' = NoFlight
  /\ UNCHANGED <<notes, cache, store, dirtyPositions, dirtyContent, persisted, nEdits,
                 saving, saveTimeoutTimer, armedTimeouts, flights, nSends>>

\* saveAll: the save button
SaveAll ==
  /\ consecutiveSyncFailures' = 0
  /\ FlushAllDirty
  /\ ev' = FlushEvent /\ done' = NoFlight
  /\ UNCHANGED <<notes, cache, store, dirtyPositions, dirtyContent, persisted, nEdits>>

\* visibilitychange with document.hidden
VisibilityHidden ==
  /\ FlushAllDirty
  /\ ev' = FlushEvent /\ done' = NoFlight
  /\ UNCHANGED <<notes, cache, store, dirtyPositions, dirtyContent,
                 consecutiveSyncFailures, persisted, nEdits>>

\* a retry that ignores the budget
RetryAlways(failures) == TRUE

\* what a failed attempt does to the sync timer: scheduleBatchSync while
\* the count, already increased, is below MAX_SYNC_RETRIES
Retry(failures) == IF failures < MAX_SYNC_RETRIES THEN TRUE ELSE syncTimer

\* the callback of the safety timeout
TimeoutBody ==
  IF saving
  THEN /\ saving' = FALSE
       /\ persisted' = PersistDirtyState(dirtyPositions, dirtyContent)
       /\ consecutiveSyncFailures' = consecutiveSyncFailures + 1
       /\ syncTimer' = Retry(consecutiveSyncFailures + 1)
  ELSE UNCHANGED <<saving, persisted, consecutiveSyncFailures, syncTimer>>

\* the safety timeout of invocation i fires
SaveTimeout(i) ==
  /\ i \in armedTimeouts
  /\ armedTimeouts' = armedTimeouts \ {i}
  /\ TimeoutBody
  /\ ev' = IF saving THEN "timeout" ELSE "edit"
  /\ done' = NoFlight
  /\ UNCHANGED <<notes, cache, store, dirtyPositions, dirtyContent, saveTimeoutTimer,
                 flights, nEdits, nSends>>

\* ---- the batch endpoint ---------------------------------------------------

\* handleBatchUpdate for the request of invocation f.  The chunks of the
\* request succeed or fail one by one; saved is the set of ids of the chunks
\* the store accepted.  lost: the answer never reaches the client (api throws).
\* saved = {} with lost covers a request that fails before the server.
HandleBatchUpdate(f, saved, lost) ==
  /\ f \in flights /\ f.phase = "sent"
  /\ saved \subseteq RecordIds(f.sentPositions, f.sentContent)
  /\ store' = [n \in DOMAIN store |-> IF n \in saved
                               THEN Assign(store[n], MergedFields(f.sentPositions, f.sentContent, n))
                               ELSE store[n]]
  /\ flights' = (flights \ {f}) \cup
       {[f EXCEPT !.phase = "answered",
                  !.ok = ~lost,
                  !.records = IF lost THEN {} ELSE saved,
                  !.errors = ~lost /\ saved # RecordIds(f.sentPositions, f.sentContent)]}
  /\ ev' = "server" /\ done' = NoFlight
  /\ UNCHANGED <<notes, cache, dirtyPositions, dirtyContent, saving, syncTimer,
                 saveTimeoutTimer, armedTimeouts, consecutiveSyncFailures, persisted,
                 nEdits, nSends>>

\* ---- flushAllDirty: the continuation after the await ---------------------

\* the loop run over every id that was sent instead of over savedIds
ReconciledPositionsAllSent(f) ==
  Without(dirtyPositions,
          {id \in DOMAIN f.sentPositions : /\ id \in DOMAIN dirtyPositions
                                           /\ PosClean(dirtyPositions[id], f.sentPositions[id])})

\* the ledger maps after the loop over savedIds
ReconciledPositions(f) ==
  Without(dirtyPositions,
          {id \in f.records : /\ id \in DOMAIN f.sentPositions
                              /\ id \in DOMAIN dirtyPositions
                              /\ PosClean(dirtyPositions[id], f.sentPositions[id])})

ReconciledContent(f) ==
  Without(dirtyContent,
          {id \in f.records : /\ id \in DOMAIN f.sentContent
                              /\ id \in DOMAIN dirtyContent
                              /\ AllFieldsClean(dirtyContent[id], f.sentContent[id])})

\* the try block after the await: reconcile, then account for errors
TryBody(f) ==
  /\ dirtyPositions' = ReconciledPositions(f)
  /\ dirtyContent' = ReconciledContent(f)
  /\ persisted' = PersistDirtyState(dirtyPositions', dirtyContent')
  /\ IF f.errors
     THEN /\ consecutiveSyncFailures' = consecutiveSyncFailures + 1
          /\ syncTimer' = Retry(consecutiveSyncFailures + 1)
     ELSE /\ consecutiveSyncFailures' = 0
          /\ syncTimer' = syncTimer

\* a catch block that forgets what the failed request carried
CatchBodyDropsSent(f) ==
  /\ dirtyPositions' = Without(dirtyPositions, DOMAIN f.sentPositions)
  /\ dirtyContent' = Without(dirtyContent, DOMAIN f.sentContent)
  /\ persisted' = PersistDirtyState(dirtyPositions', dirtyContent')
  /\ consecutiveSyncFailures' = consecutiveSyncFailures + 1
  /\ syncTimer' = Retry(consecutiveSyncFailures + 1)

\* the catch block: api() threw
CatchBody(f) ==
  /\ persisted' = PersistDirtyState(dirtyPositions, dirtyContent)
  /\ consecutiveSyncFailures' = consecutiveSyncFailures + 1
  /\ syncTimer' = Retry(consecutiveSyncFailures + 1)
  /\ UNCHANGED <<dirtyPositions, dirtyContent>>

\* the finally block
Finally ==
  /\ armedTimeouts' = armedTimeouts \ {saveTimeoutTimer}
  /\ saveTimeoutTimer' = Null
  /\ saving' = FALSE

\* the continuation of invocation f, run when api() settles
Reconcile(f) ==
  /\ f \in flights /\ f.phase = "answered"
  /\ flights' = flights \ {f}
  /\ IF f.ok THEN TryBody(f) ELSE CatchBody(f)
  /\ Finally
  /\ ev' = IF ~f.ok THEN "catch" ELSE IF f.errors THEN "partial" ELSE "synced"
  /\ done' = f
  /\ UNCHANGED <<notes, cache, store, nEdits, nSends>>

\* ---- crash recovery: persist, unload, load ---------------------------------

STALE_MINUTES == 5       \* 5 * 60 * 1000 ms
BEACON_LIMIT == 64000
ID_LENGTH == 17          \* characters of a record id of the store

\* the periodic persistDirtyState of setInterval
PersistTick ==
  /\ persisted' = PersistDirtyState(dirtyPositions, dirtyContent)
  /\ ev' = "edit" /\ done' = NoFlight
  /\ UNCHANGED <<notes, cache, store, dirtyPositions, dirtyContent, saving, syncTimer,
                 saveTimeoutTimer, armedTimeouts, consecutiveSyncFailures, flights,
                 nEdits, nSends, now, page, nLoads, unload, beacon>>

\* a click on the resize handle, released without a move, of a note whose
\* width and height were never set: parseInt(el.style.width) is NaN
ResizeClick(n) ==
  /\ notes[n]["Size W"] = "" /\ notes[n]["Size H"] = ""
  /\ ResizeEnd(n, NaN, NaN)

\* one minute passes (the minutes that count are those between two pages)
Tick ==
  /\ now' = now + 1
  /\ ev' = "edit" /\ done' = NoFlight
  /\ UNCHANGED <<notes, cache, store, dirtyPositions, dirtyContent, saving, syncTimer,
                 saveTimeoutTimer, armedTimeouts, consecutiveSyncFailures, persisted,
                 flights, nEdits, nSends, page, nLoads, unload, beacon>>

\* text.length: "long" and "longer" stand for the texts that bring the payload
\* of one record with one field to BEACON_LIMIT characters and to one more
Chars(text) == CASE text = "long" -> BEACON_LIMIT - 52 - ID_LENGTH
                 [] text = "longer" -> BEACON_LIMIT - 51 - ID_LENGTH
                 [] OTHER -> Len(text)

RECURSIVE Sum(_, _)
Sum(f, S) == IF S = {} THEN 0
             ELSE LET k == CHOOSE j \in S : TRUE IN f[k] + Sum(f, S \ {k})

\* JSON.stringify({ id, fields }).length
RecordLength(fields) ==
  LET Fs == DOMAIN fields
  IN 7 + ID_LENGTH + 12
     + Sum([F \in Fs |-> Len(F) + Chars(fields[F]) + 5], Fs)
     + (IF Fs = {} THEN 0 ELSE Cardinality(Fs) - 1)
     + 2

\* JSON.stringify({ records }).length for the merged ledger
PayloadLength(dp, dc) ==
  LET ids == RecordIds(dp, dc)
  IN 12 + Sum([id \in ids |-> RecordLength(MergedFields(dp, dc, id))], ids)
        + (Cardinality(ids) - 1) + 2

\* a beforeunload handler that sends the beacon whatever its size
BeforeUnloadAlwaysBeacons ==
  /\ page # "unloaded"
  /\ page' = "unloaded"
  /\ syncTimer' = FALSE
  /\ persisted' = PersistDirtyState(dirtyPositions, dirtyContent)
  /\ IF LedgerEmpty
     THEN unload' = <<"persist">> /\ beacon' = beacon
     ELSE /\ unload' = <<"persist", "beacon">>
          /\ beacon' = [present |-> TRUE, sentPositions |-> dirtyPositions,
                        sentContent |-> dirtyContent]
  /\ ev' = "edit" /\ done' = NoFlight
  /\ UNCHANGED <<notes, cache, store, dirtyPositions, dirtyContent, saving,
                 saveTimeoutTimer, armedTimeouts, consecutiveSyncFailures, flights,
                 nEdits, nSends, now, nLoads>>

\* the beforeunload handler; the page is gone after it
BeforeUnload ==
  /\ page # "unloaded"
  /\ page' = "unloaded"
  /\ syncTimer' = FALSE
  /\ persisted' = PersistDirtyState(dirtyPositions, dirtyContent)
  /\ IF LedgerEmpty
     THEN unload' = <<"persist">> /\ beacon' = beacon
     ELSE IF PayloadLength(dirtyPositions, dirtyContent) <= BEACON_LIMIT
     THEN /\ unload' = <<"persist", "beacon">>
          /\ beacon' = [present |-> TRUE, sentPositions |-> dirtyPositions,
                        sentContent |-> dirtyContent]
     ELSE unload' = <<"persist", "warn">> /\ beacon' = beacon
  /\ ev' = "edit" /\ done' = NoFlight
  /\ UNCHANGED <<notes, cache, store, dirtyPositions, dirtyContent, saving,
                 saveTimeoutTimer, armedTimeouts, consecutiveSyncFailures, flights,
                 nEdits, nSends, now, nLoads>>

\* the page dies without running beforeunload
Crash ==
  /\ page # "unloaded"
  /\ page' = "unloaded"
  /\ unload' = <<>>
  /\ ev' = "edit" /\ done' = NoFlight
  /\ UNCHANGED <<notes, cache, store, dirtyPositions, dirtyContent, saving, syncTimer,
                 saveTimeoutTimer, armedTimeouts, consecutiveSyncFailures, persisted,
                 flights, nEdits, nSends, now, nLoads, beacon>>

\* the proxy handles the beacon: POST /api/notes/batch
HandleBeacon(saved) ==
  /\ beacon.present
  /\ saved \subseteq RecordIds(beacon.sentPositions, beacon.sentContent)
  /\ store' = [n \in DOMAIN store |-> IF n \in saved
                               THEN Assign(store[n], MergedFields(beacon.sentPositions,
                                                                  beacon.sentContent, n))
                               ELSE store[n]]
  /\ beacon' = NoBeacon
  /\ ev' = "server" /\ done' = NoFlight
  /\ UNCHANGED <<notes, cache, dirtyPositions, dirtyContent, saving, syncTimer,
                 saveTimeoutTimer, armedTimeouts, consecutiveSyncFailures, persisted,
                 flights, nEdits, nSends, now, page, nLoads, unload>>

\* the script starts on a new page: fresh state, loadNotes renders the cache
\* and awaits GET /api/notes.  The requests of the old page have no
\* continuation any more.
Boot ==
  /\ page = "unloaded"
  /\ page' = "loading"
  /\ notes' = cache
  /\ dirtyPositions' = EmptyMap /\ dirtyContent' = EmptyMap
  /\ saving' = FALSE /\ syncTimer' = FALSE
  /\ saveTimeoutTimer' = Null /\ armedTimeouts' = {}
  /\ consecutiveSyncFailures' = 0
  /\ flights' = {}
  /\ nLoads' = nLoads + 1
  /\ ev' = "edit" /\ done' = NoFlight
  /\ UNCHANGED <<cache, store, persisted, nEdits, nSends, now, unload, beacon>>

\* restoreDirtyState: is the item under DIRTY_KEY too old
Stale == persisted.ts # 0 /\ now - persisted.ts > STALE_MINUTES

\* a restoreDirtyState that takes the item whatever its age
RestoredAnyAge(m, saved, isPos) ==
  IF ~persisted.present THEN m
  ELSE [id \in (DOMAIN m) \cup (DOMAIN saved) |->
          IF id \in DOMAIN m THEN m[id]
          ELSE IF isPos THEN ParsedPos(saved[id]) ELSE saved[id]]

\* a restoreDirtyState whose saved entries replace those of the ledger
RestoredOverwrites(m, saved, isPos) ==
  IF ~persisted.present \/ Stale THEN m
  ELSE [id \in (DOMAIN m) \cup (DOMAIN saved) |->
          IF id \notin DOMAIN saved THEN m[id]
          ELSE IF isPos THEN ParsedPos(saved[id]) ELSE saved[id]]

\* restoreDirtyState: ledger map m after the loop over the saved entries
Restored(m, saved, isPos) ==
  IF ~persisted.present \/ Stale THEN m
  ELSE [id \in (DOMAIN m) \cup (DOMAIN saved) |->
          IF id \in DOMAIN m THEN m[id]
          ELSE IF isPos THEN ParsedPos(saved[id]) ELSE saved[id]]

\* loadNotes after its await: the records of the store (or the cache, if the
\* request failed), restoreDirtyState, and flushAllDirty if anything is dirty
LoadNotes(fetched) ==
  /\ page = "loading"
  /\ page' = "running"
  /\ notes' = IF fetched THEN store ELSE notes
  /\ cache' = IF fetched THEN store ELSE cache
  /\ dirtyPositions' = Restored(dirtyPositions, persisted.positions, TRUE)
  /\ dirtyContent' = Restored(dirtyContent, persisted.content, FALSE)
  /\ persisted' = NoRecord
  /\ IF DOMAIN dirtyPositions' # {} \/ DOMAIN dirtyContent' # {}
     THEN Flush(dirtyPositions', dirtyContent')
     ELSE UNCHANGED <<saving, syncTimer, saveTimeoutTimer, armedTimeouts, flights, nSends>>
  /\ ev' = IF ~persisted.present THEN "loaded" ELSE IF Stale THEN "stale" ELSE "restored"
  /\ done' = NoFlight
  /\ UNCHANGED <<store, consecutiveSyncFailures, nEdits, now, nLoads, unload, beacon>>

\* r.fields[F] || '' of a store record, which has no key for an empty field
Field(r, F) == IF F \in DOMAIN r THEN r[F] ELSE ""
\* r.fields[F] as a condition
Truthy(r, F) == F \in DOMAIN r /\ r[F] # ""

\* ---- the proxy ---------------------------------------------------------------

CHUNK == 10              \* records per store write
RETRIES == 3             \* retries = 3 of airtableRequestWithRetry
BACKOFF_MS == 1000
NoStatus == 0            \* err.status of an error that is not an HTTP answer
Statuses == {200, 429, 500, NoStatus}

RECURSIVE Pow2(_)
Pow2(k) == IF k = 0 THEN 1 ELSE 2 * Pow2(k - 1)

\* a wrapper whose delay grows by one second per attempt instead of doubling
RECURSIVE AirtableRequestLinearBackoff(_, _, _)
AirtableRequestLinearBackoff(outcomes, attempt, made) ==
  LET status == outcomes[attempt + 1]
      log == Append(made, [attempt |-> attempt, status |-> status,
                           delay |-> BACKOFF_MS * attempt])
  IN IF status = 200 THEN [status |-> 200, attempts |-> log]
     ELSE IF status = 429 /\ attempt < RETRIES
     THEN AirtableRequestLinearBackoff(outcomes, attempt + 1, log)
     ELSE [status |-> status, attempts |-> log]

\* airtableRequestWithRetry from the given attempt on.  outcomes[k] is what
\* the store answers to attempt k - 1; made are the attempts so far, each with
\* the delay waited before it.  The result is the status returned (200) or
\* thrown, and all attempts.
RECURSIVE AirtableRequestWithRetry(_, _, _)
AirtableRequestWithRetry(outcomes, attempt, made) ==
  LET status == outcomes[attempt + 1]
      log == Append(made, [attempt |-> attempt, status |-> status,
                           delay |-> IF attempt = 0 THEN 0
                                     ELSE BACKOFF_MS * Pow2(attempt - 1)])
  IN IF status = 200 THEN [status |-> 200, attempts |-> log]
     ELSE IF status = 429 /\ attempt < RETRIES
     THEN AirtableRequestWithRetry(outcomes, attempt + 1, log)
     ELSE [status |-> status, attempts |-> log]

\* res.status(err.status || 500)
ErrStatus(status) == IF status = NoStatus THEN 500 ELSE status

Min(a, b) == IF a < b THEN a ELSE b

\* slices that overlap by one record
RECURSIVE ChunksOverlapping(_, _)
ChunksOverlapping(records, i) ==
  IF i >= Len(records) THEN <<>>
  ELSE <<SubSeq(records, i + 1, Min(i + CHUNK + 1, Len(records)))>>
         \o ChunksOverlapping(records, i + CHUNK)

\* records.slice(i, i + 10) for i = i, i + 10, ...
RECURSIVE Chunks(_, _)
Chunks(records, i) ==
  IF i >= Len(records) THEN <<>>
  ELSE <<SubSeq(records, i + 1, Min(i + CHUNK, Len(records)))>> \o Chunks(records, i + CHUNK)

\* the store requests of one call of airtableRequestWithRetry
StoreCalls(method, records, attempts) ==
  [k \in DOMAIN attempts |-> [method |-> method, records |-> records,
                             attempt |-> attempts[k].attempt,
                             delay |-> attempts[k].delay,
                             status |-> attempts[k].status]]

\* a loop that gives up at the first failing chunk
RECURSIVE BatchLoopStopsAtError(_, _, _, _)
BatchLoopStopsAtError(chunks, oracle, c, acc) ==
  IF c > Len(chunks) THEN acc
  ELSE LET data == AirtableRequestWithRetry(oracle[c], 0, <<>>)
           made == acc.calls \o StoreCalls("PATCH", chunks[c], data.attempts)
       IN IF data.status = 200
          THEN BatchLoopStopsAtError(chunks, oracle, c + 1,
                    [acc EXCEPT !.records = @ \o chunks[c], !.calls = made])
          ELSE [acc EXCEPT !.errors = Append(@, [ids |-> chunks[c]]), !.calls = made]

\* the loop of handleBatchUpdate from chunk c on; oracle[c] is what the store
\* answers to the attempts of chunk c
RECURSIVE BatchLoop(_, _, _, _)
BatchLoop(chunks, oracle, c, acc) ==
  IF c > Len(chunks) THEN acc
  ELSE LET data == AirtableRequestWithRetry(oracle[c], 0, <<>>)
           made == acc.calls \o StoreCalls("PATCH", chunks[c], data.attempts)
       IN IF data.status = 200
          THEN BatchLoop(chunks, oracle, c + 1,
                    [acc EXCEPT !.records = @ \o chunks[c], !.calls = made])
          ELSE BatchLoop(chunks, oracle, c + 1,
                    [acc EXCEPT !.errors = Append(@, [ids |-> chunks[c]]), !.calls = made])

\* PATCH or POST /api/notes/batch with the ids records; the field values of
\* the writes are those of HandleBatchUpdate
BatchRequest(records, oracle) ==
  /\ LET out == BatchLoop(Chunks(records, 0), oracle, 1,
                          [records |-> <<>>, errors |-> <<>>, calls |-> <<>>])
     IN /\ res' = [status |-> 200, records |-> out.records, errors |-> out.errors,
                   fields |-> [id \in Range(out.records) \cap DOMAIN store |-> store[id]]]
        /\ calls' = out.calls
  /\ req' = [route |-> "PATCH /api/notes/batch", id |-> 0, password |-> JSUndefined,
             records |-> records]
  /\ ev' = "server" /\ done' = NoFlight
  /\ UNCHANGED <<notes, cache, store, dirtyPositions, dirtyContent, saving, syncTimer,
                 saveTimeoutTimer, armedTimeouts, consecutiveSyncFailures, persisted,
                 flights, nEdits, nSends, NOTE_PASSWORD, deletes>>

\* PATCH /api/notes/:id
UpdateNote(id, outcomes) ==
  /\ LET data == AirtableRequestWithRetry(outcomes, 0, <<>>)
     IN /\ res' = [status |-> IF data.status = 200 THEN 200 ELSE ErrStatus(data.status),
                   records |-> IF data.status = 200 THEN <<id>> ELSE <<>>,
                   errors |-> <<>>,
                   fields |-> IF data.status = 200 /\ id \in DOMAIN store
                              THEN [k \in {id} |-> store[id]] ELSE EmptyMap]
        /\ calls' = StoreCalls("PATCH", <<id>>, data.attempts)
  /\ req' = [route |-> "PATCH /api/notes/:id", id |-> id, password |-> JSUndefined,
             records |-> <<>>]
  /\ ev' = "server" /\ done' = NoFlight
  /\ UNCHANGED <<notes, cache, store, dirtyPositions, dirtyContent, saving, syncTimer,
                 saveTimeoutTimer, armedTimeouts, consecutiveSyncFailures, persisted,
                 flights, nEdits, nSends, NOTE_PASSWORD, deletes>>

\* a password check that lets every request pass while NOTE_PASSWORD is not set
GuardedOpenWhenUnset(method, id, password, storeStatus) ==
  LET status == IF id \in DOMAIN store THEN storeStatus ELSE 404
  IN IF NOTE_PASSWORD # JSUndefined /\ password # NOTE_PASSWORD
     THEN [status |-> 403, calls |-> <<>>]
     ELSE [status |-> IF status = 200 THEN 200 ELSE ErrStatus(status),
           calls |-> <<[method |-> method, records |-> <<id>>, attempt |-> 0,
                        delay |-> 0, status |-> status]>>]

\* the handlers of unlock and delete: the password check, then one store
\* request (no retry) that the store answers with storeStatus
Guarded(method, id, password, storeStatus) ==
  LET status == IF id \in DOMAIN store THEN storeStatus ELSE 404
  IN IF password # NOTE_PASSWORD
     THEN [status |-> 403, calls |-> <<>>]
     ELSE [status |-> IF status = 200 THEN 200 ELSE ErrStatus(status),
           calls |-> <<[method |-> method, records |-> <<id>>, attempt |-> 0,
                        delay |-> 0, status |-> status]>>]

\* POST /api/notes/:id/unlock
Unlock(id, password, storeStatus) ==
  /\ LET out == Guarded("GET", id, password, storeStatus)
     IN /\ res' = [status |-> out.status, records |-> <<>>, errors |-> <<>>,
                   fields |-> IF out.status = 200
                              THEN [k \in {id} |-> [F \in {"Anteckningar"} |->
                                                     Field(store[id], "Anteckningar")]]
                              ELSE EmptyMap]
        /\ calls' = out.calls
  /\ req' = [route |-> "POST /api/notes/:id/unlock", id |-> id, password |-> password,
             records |-> <<>>]
  /\ ev' = "server" /\ done' = NoFlight
  /\ UNCHANGED <<notes, cache, store, dirtyPositions, dirtyContent, saving, syncTimer,
                 saveTimeoutTimer, armedTimeouts, consecutiveSyncFailures, persisted,
                 flights, nEdits, nSends, NOTE_PASSWORD, deletes>>

\* DELETE /api/notes/:id
DeleteRequest(id, password, storeStatus) ==
  /\ LET out == Guarded("DELETE", id, password, storeStatus)
     IN /\ res' = [status |-> out.status, records |-> <<>>, errors |-> <<>>,
                   fields |-> EmptyMap]
        /\ calls' = out.calls
        /\ store' = IF out.status = 200 THEN Without(store, {id}) ELSE store
  /\ req' = [route |-> "DELETE /api/notes/:id", id |-> id, password |-> password,
             records |-> <<>>]
  /\ ev' = "server" /\ done' = NoFlight
  /\ UNCHANGED <<notes, cache, dirtyPositions, dirtyContent, saving, syncTimer,
                 saveTimeoutTimer, armedTimeouts, consecutiveSyncFailures, persisted,
                 flights, nEdits, nSends, NOTE_PASSWORD>>

\* ---- GET /api/notes -----------------------------------------------------------

ListedFields == AllFields \cup {"Lösenord"}

\* a list endpoint that hands out the records as the store has them
SanitizedAsStored(r) ==
  [F \in ListedFields |->
     IF F = "Lösenord" THEN (IF Truthy(r, "Lösenord") THEN "true" ELSE "false")
     ELSE Field(r, F)]

\* one element of sanitized (without Color, which no claim reads)
Sanitized(r) ==
  [F \in ListedFields |->
     IF F = "Anteckningar" THEN (IF Truthy(r, "Lösenord") THEN "" ELSE Field(r, F))
     ELSE IF F = "Lösenord" THEN (IF Truthy(r, "Lösenord") THEN "true" ELSE "false")
     ELSE Field(r, F)]

\* the ids of the table in the order in which the store lists them
Sorted(S) == CHOOSE seq \in [1..Cardinality(S) -> S] :
               \A i \in 1..Cardinality(S), j \in 1..Cardinality(S) : i < j => seq[i] < seq[j]

\* a loop that stops after the second page
RECURSIVE FetchPagesTwoAtMost(_, _, _, _, _, _)
FetchPagesTwoAtMost(table, size, failAt, status, i, acc) ==
  LET k == Len(acc.calls) + 1
      rows == SubSeq(table, i + 1, Min(i + size, Len(table)))
      more == i + size < Len(table)
      call == [method |-> "GET", records |-> IF k = failAt THEN <<>> ELSE rows,
               attempt |-> 0, delay |-> 0,
               status |-> IF k = failAt THEN status ELSE 200,
               offset |-> i, next |-> IF more /\ k # failAt THEN i + size ELSE 0]
  IN IF k = failAt
     THEN [status |-> ErrStatus(status), records |-> <<>>, calls |-> Append(acc.calls, call)]
     ELSE IF more /\ k < 2
     THEN FetchPagesTwoAtMost(table, size, failAt, status, i + size,
                     [acc EXCEPT !.records = @ \o rows, !.calls = Append(@, call)])
     ELSE [status |-> 200, records |-> acc.records \o rows, calls |-> Append(acc.calls, call)]

\* the do-while loop of GET /api/notes from the rows that starts after the
\* first i records.  The store lists table in pages of size records and gives
\* an offset token (the index to go on from) with every rows but the last;
\* its answer to request number failAt is the error status.
RECURSIVE FetchPages(_, _, _, _, _, _)
FetchPages(table, size, failAt, status, i, acc) ==
  LET k == Len(acc.calls) + 1
      rows == SubSeq(table, i + 1, Min(i + size, Len(table)))
      more == i + size < Len(table)
      call == [method |-> "GET", records |-> IF k = failAt THEN <<>> ELSE rows,
               attempt |-> 0, delay |-> 0,
               status |-> IF k = failAt THEN status ELSE 200,
               offset |-> i, next |-> IF more /\ k # failAt THEN i + size ELSE 0]
  IN IF k = failAt
     THEN [status |-> ErrStatus(status), records |-> <<>>, calls |-> Append(acc.calls, call)]
     ELSE IF more
     THEN FetchPages(table, size, failAt, status, i + size,
                     [acc EXCEPT !.records = @ \o rows, !.calls = Append(@, call)])
     ELSE [status |-> 200, records |-> acc.records \o rows, calls |-> Append(acc.calls, call)]

\* the response of GET /api/notes for a store
ListResult(table, size, failAt, status) ==
  LET out == FetchPages(Sorted(DOMAIN table), size, failAt, status, 0,
                        [records |-> <<>>, calls |-> <<>>])
  IN [status |-> out.status, records |-> out.records, errors |-> <<>>,
      fields |-> [id \in Range(out.records) |-> Sanitized(table[id])],
      calls |-> out.calls]

\* GET /api/notes
ListNotes(size, failAt, status) ==
  /\ LET out == ListResult(store, size, failAt, status)
     IN /\ res' = [status |-> out.status, records |-> out.records, errors |-> <<>>,
                   fields |-> out.fields]
        /\ calls' = out.calls
  /\ req' = [route |-> "GET /api/notes", id |-> 0, password |-> JSUndefined,
             records |-> <<>>]
  /\ ev' = "server" /\ done' = NoFlight
  /\ UNCHANGED <<notes, cache, store, dirtyPositions, dirtyContent, saving, syncTimer,
                 saveTimeoutTimer, armedTimeouts, consecutiveSyncFailures, persisted,
                 flights, nEdits, nSends, NOTE_PASSWORD, deletes>>

\* another client creates a record (POST /api/notes)
StoreCreate(id) ==
  /\ id \notin DOMAIN store
  /\ store' = MapSet(store, id, EmptyFields)
  /\ ev' = "store" /\ done' = NoFlight
  /\ UNCHANGED <<notes, cache, dirtyPositions, dirtyContent, saving, syncTimer,
                 saveTimeoutTimer, armedTimeouts, consecutiveSyncFailures, persisted,
                 flights, nEdits, nSends, NOTE_PASSWORD, req, res, calls, deletes>>

\* the text and the lock of record id are set in the store
StoreWrite(id, text, locked) ==
  /\ id \in DOMAIN store
  /\ store' = [store EXCEPT ![id] =
                 IF locked THEN Assign(@, [F \in {"Anteckningar", "Lösenord"} |->
                                            IF F = "Lösenord" THEN "true" ELSE text])
                 ELSE [F \in AllFields |-> IF F = "Anteckningar" THEN text ELSE @[F]]]
  /\ ev' = "store" /\ done' = NoFlight
  /\ UNCHANGED <<notes, cache, dirtyPositions, dirtyContent, saving, syncTimer,
                 saveTimeoutTimer, armedTimeouts, consecutiveSyncFailures, persisted,
                 flights, nEdits, nSends, NOTE_PASSWORD, req, res, calls, deletes>>

\* ---- the delete button ---------------------------------------------------

\* setupNoteDelete, click, and the prompt closed by Cancel, the close button,
\* Escape or a click on the overlay: promptPassword resolves null
DeleteCancel(n) ==
  /\ n \in DOMAIN notes
  /\ ev' = "cancel" /\ done' = NoFlight
  /\ UNCHANGED <<notes, cache, store, dirtyPositions, dirtyContent, saving, syncTimer,
                 saveTimeoutTimer, armedTimeouts, consecutiveSyncFailures, persisted,
                 flights, nEdits, nSends, NOTE_PASSWORD, req, res, calls, deletes>>

\* setupNoteDelete, click, and the prompt closed by OK or Enter with the text
\* pw: the handler calls api('DELETE', ...) and awaits
DeleteSubmit(n, pw) ==
  /\ n \in DOMAIN notes
  /\ deletes' = deletes \cup {[id |-> n, password |-> Str(pw), phase |-> "sent", status |-> 0]}
  /\ ev' = "delete" /\ done' = NoFlight
  /\ UNCHANGED <<notes, cache, store, dirtyPositions, dirtyContent, saving, syncTimer,
                 saveTimeoutTimer, armedTimeouts, consecutiveSyncFailures, persisted,
                 flights, nEdits, nSends, NOTE_PASSWORD, req, res, calls>>

\* the proxy handles the DELETE request d; lost: its answer does not arrive
\* and fetch rejects.  status 0 stands for that error.
DeleteServe(d, storeStatus, lost) ==
  /\ d \in deletes /\ d.phase = "sent"
  /\ DeleteRequest(d.id, d.password, storeStatus)
  /\ deletes' = (deletes \ {d}) \cup
       {[d EXCEPT !.phase = "answered", !.status = IF lost THEN 0 ELSE res'.status]}

\* a click handler that takes the note away before the answer is known
DeleteDoneOptimistic(d) ==
  /\ d \in deletes /\ d.phase = "answered"
  /\ deletes' = deletes \ {d}
  /\ notes' = Without(notes, {d.id})
  /\ dirtyPositions' = Without(dirtyPositions, {d.id})
  /\ dirtyContent' = Without(dirtyContent, {d.id})
  /\ cache' = notes'
  /\ ev' = IF d.status = 200 THEN "deleted" ELSE "rejected"
  /\ done' = NoFlight
  /\ UNCHANGED <<store, saving, syncTimer, saveTimeoutTimer, armedTimeouts,
                 consecutiveSyncFailures, persisted, flights, nEdits, nSends,
                 NOTE_PASSWORD, req, res, calls>>

\* the click handler after the await: the try block after api() returned, or
\* the catch block after it threw (the answer was not ok, or none came)
DeleteDone(d) ==
  /\ d \in deletes /\ d.phase = "answered"
  /\ deletes' = deletes \ {d}
  /\ IF d.status = 200
     THEN /\ notes' = Without(notes, {d.id})
          /\ dirtyPositions' = Without(dirtyPositions, {d.id})
          /\ dirtyContent' = Without(dirtyContent, {d.id})
          /\ cache' = notes'
          /\ ev' = "deleted"
     ELSE /\ ev' = "rejected"
          /\ UNCHANGED <<notes, dirtyPositions, dirtyContent, cache>>
  /\ done' = NoFlight
  /\ UNCHANGED <<store, saving, syncTimer, saveTimeoutTimer, armedTimeouts,
                 consecutiveSyncFailures, persisted, flights, nEdits, nSends,
                 NOTE_PASSWORD, req, res, calls>>

\* ---- the legacy client: one timer per note, one PATCH per note -------------

\* the variables only the evolved client has
NoEvolved == UNCHANGED <<consecutiveSyncFailures, saveTimeoutTimer, armedTimeouts, persisted>>

\* the variables only the legacy client has
NoLegacy == UNCHANGED <<contentTimers, contentTimeouts, patches, beacons>>

\* the callback contentTimers[noteId] stands for, while it is pending
PendingTimer(noteId) ==
  {t \in contentTimeouts : noteId \in DOMAIN contentTimers /\ t.tid = contentTimers[noteId]}

\* a debounce that arms a new timer and leaves the pending one alone
LegacyDebounceSaveContentKeepsTimer(noteId, fields) ==
  /\ LET existing == IF noteId \in DOMAIN dirtyContent THEN dirtyContent[noteId] ELSE EmptyMap
     IN dirtyContent' = MapSet(dirtyContent, noteId, Assign(existing, fields))
  /\ cache' = notes'
  /\ contentTimeouts' = contentTimeouts \cup
       {[tid |-> nEdits + 1, note |-> noteId, delay |-> SAVE_DEBOUNCE_MS, age |-> 0]}
  /\ contentTimers' = MapSet(contentTimers, noteId, nEdits + 1)
  /\ nEdits' = nEdits + 1

\* debounceSaveContent(noteId, fields) of the legacy client
LegacyDebounceSaveContent(noteId, fields) ==
  /\ LET existing == IF noteId \in DOMAIN dirtyContent THEN dirtyContent[noteId] ELSE EmptyMap
     IN dirtyContent' = MapSet(dirtyContent, noteId, Assign(existing, fields))
  /\ cache' = notes'
  /\ contentTimeouts' = (contentTimeouts \ PendingTimer(noteId)) \cup
       {[tid |-> nEdits + 1, note |-> noteId, delay |-> SAVE_DEBOUNCE_MS, age |-> 0]}
  /\ contentTimers' = MapSet(contentTimers, noteId, nEdits + 1)
  /\ nEdits' = nEdits + 1

\* the textarea's input listener of the legacy client
LegacyContentInput(n, fields) ==
  /\ page = "running"
  /\ n \in DOMAIN notes
  /\ notes' = [notes EXCEPT ![n] = Assign(@, fields)]
  /\ LegacyDebounceSaveContent(n, fields)
  /\ ev' = "edit" /\ done' = NoFlight
  /\ UNCHANGED <<store, dirtyPositions, saving, syncTimer, flights, nSends, patches, beacons>>
  /\ NoEvolved

\* setupNoteDrag, onUp, of the legacy client: a fresh {x, y} entry, and
\* resetIdleTimer (syncTimer stands for idleTimer here)
LegacyDragEnd(n, x, y) ==
  /\ page = "running"
  /\ n \in DOMAIN notes
  /\ dirtyPositions' = MapSet(dirtyPositions, n, [NoPos EXCEPT !.x = x, !.y = y])
  /\ notes' = [notes EXCEPT ![n] = Assign(@, [F \in {"Position X", "Position Y"} |->
                                   IF F = "Position X" THEN String(x) ELSE String(y)])]
  /\ cache' = notes'
  /\ syncTimer' = TRUE
  /\ nEdits' = nEdits + 1
  /\ ev' = "edit" /\ done' = NoFlight
  /\ UNCHANGED <<store, dirtyContent, saving, flights, nSends>>
  /\ NoEvolved /\ NoLegacy

\* flushContentSave(noteId) for every noteId of S, up to its await: nothing
\* for a note without pending fields
FlushContentSave(S) ==
  LET sent == S \cap DOMAIN dirtyContent
  IN /\ dirtyContent' = Without(dirtyContent, sent)
     /\ contentTimers' = Without(contentTimers, sent)
     /\ patches' = patches \cup
          {[pid |-> <<nSends + 1, n>>, note |-> n, fields |-> dirtyContent[n],
            phase |-> "sent", ok |-> FALSE] : n \in sent}

\* flushPositions, up to its await
FlushPositions ==
  IF DOMAIN dirtyPositions = {} \/ saving
  THEN UNCHANGED <<saving, flights>>
  ELSE /\ saving' = TRUE
       /\ flights' = flights \cup
            {[NoFlight EXCEPT !.fid = nSends + 1, !.sentPositions = dirtyPositions,
                              !.phase = "sent"]}

\* the callback of a content timer
ContentTimerFire(t) ==
  /\ page = "running"
  /\ t \in contentTimeouts /\ t.age >= t.delay
  /\ contentTimeouts' = contentTimeouts \ {t}
  /\ FlushContentSave({t.note})
  /\ nSends' = nSends + 1
  /\ ev' = IF t.note \in DOMAIN dirtyContent THEN "patch" ELSE "nothing"
  /\ done' = NoFlight
  /\ UNCHANGED <<notes, cache, store, dirtyPositions, saving, syncTimer, flights, nEdits,
                 beacons>>
  /\ NoEvolved

\* the callback of the idle timer
IdleTimerFire ==
  /\ page = "running"
  /\ syncTimer
  /\ syncTimer' = FALSE
  /\ FlushPositions
  /\ nSends' = nSends + 1
  /\ ev' = "positions" /\ done' = NoFlight
  /\ UNCHANGED <<notes, cache, store, dirtyPositions, dirtyContent, nEdits>>
  /\ NoEvolved /\ NoLegacy

\* saveAll of the legacy client (the save button, visibilitychange):
\* flushPositions, and flushAllContent, which clears the timer of every note
\* with pending content and flushes it
LegacySaveAll ==
  /\ page = "running"
  /\ FlushPositions
  /\ contentTimeouts' = contentTimeouts \ UNION {PendingTimer(n) : n \in DOMAIN dirtyContent}
  /\ FlushContentSave(DOMAIN dirtyContent)
  /\ nSends' = nSends + 1
  /\ ev' = "saveAll" /\ done' = NoFlight
  /\ UNCHANGED <<notes, cache, store, dirtyPositions, syncTimer, nEdits, beacons>>
  /\ NoEvolved

\* flushPositions after its await: the ledger is cleared when api() returned
LegacyPositionsDone(f) ==
  /\ page = "running"
  /\ f \in flights /\ f.phase = "answered"
  /\ flights' = flights \ {f}
  /\ dirtyPositions' = IF f.ok THEN EmptyMap ELSE dirtyPositions
  /\ saving' = FALSE
  /\ ev' = IF f.ok THEN "synced" ELSE "catch"
  /\ done' = f
  /\ UNCHANGED <<notes, cache, store, dirtyContent, syncTimer, nEdits, nSends>>
  /\ NoEvolved /\ NoLegacy

\* the proxy and the store handle PATCH /api/notes/:id of the request p; the
\* answer is not ok when the store refuses, the note is gone, or fetch rejects
LegacyPatchServe(p, storeOk) ==
  /\ p \in patches /\ p.phase = "sent"
  /\ LET ok == storeOk /\ p.note \in DOMAIN store
     IN /\ store' = IF ok THEN [store EXCEPT ![p.note] = Assign(@, p.fields)] ELSE store
        /\ patches' = (patches \ {p}) \cup {[p EXCEPT !.phase = "answered", !.ok = ok]}
  /\ ev' = "server" /\ done' = NoFlight
  /\ UNCHANGED <<notes, cache, dirtyPositions, dirtyContent, saving, syncTimer, flights,
                 nEdits, nSends, contentTimers, contentTimeouts, beacons>>
  /\ NoEvolved

\* flushContentSave after its await: the catch block puts the fields back
LegacyPatchDone(p) ==
  /\ page = "running"
  /\ p \in patches /\ p.phase = "answered"
  /\ patches' = patches \ {p}
  /\ IF p.ok
     THEN dirtyContent' = dirtyContent
     ELSE LET existing == IF p.note \in DOMAIN dirtyContent THEN dirtyContent[p.note]
                          ELSE EmptyMap
          IN dirtyContent' = MapSet(dirtyContent, p.note, Assign(existing, p.fields))
  /\ ev' = IF p.ok THEN "saved" ELSE "requeued"
  /\ done' = NoFlight
  /\ UNCHANGED <<notes, cache, store, dirtyPositions, saving, syncTimer, flights,
                 nEdits, nSends, contentTimers, contentTimeouts, beacons>>
  /\ NoEvolved

\* time passes for the content timers
LegacyElapse ==
  /\ contentTimeouts # {}
  /\ \E t \in contentTimeouts : t.age < t.delay
  /\ contentTimeouts' = {[t EXCEPT !.age = Min(t.age + LegacyTickMs, t.delay)] :
                           t \in contentTimeouts}
  /\ ev' = "edit" /\ done' = NoFlight
  /\ UNCHANGED <<notes, cache, store, dirtyPositions, dirtyContent, saving, syncTimer,
                 flights, nEdits, nSends, contentTimers, patches, beacons>>
  /\ NoEvolved

\* ---- the legacy client: beforeunload, and the routes its beacons meet ------

\* the routes server.js registers, in the order of registration
Routes ==
  << [method |-> "GET",    path |-> <<"api", "notes">>,                 handler |-> "listNotes"],
     [method |-> "POST",   path |-> <<"api", "notes">>,                 handler |-> "createNote"],
     [method |-> "PATCH",  path |-> <<"api", "notes", "batch">>,        handler |-> "handleBatchUpdate"],
     [method |-> "POST",   path |-> <<"api", "notes", "batch">>,        handler |-> "handleBatchUpdate"],
     [method |-> "PATCH",  path |-> <<"api", "notes", ":id">>,          handler |-> "updateNote"],
     [method |-> "POST",   path |-> <<"api", "notes", ":id", "unlock">>, handler |-> "unlock"],
     [method |-> "DELETE", path |-> <<"api", "notes", ":id">>,          handler |-> "deleteNote"],
     [method |-> "POST",   path |-> <<"api", "verify-password">>,       handler |-> "verifyPassword"] >>

\* a route's path matches segment by segment; ":id" matches any segment
Matches(pattern, path) ==
  /\ Len(pattern) = Len(path)
  /\ \A k \in DOMAIN pattern : pattern[k] = ":id" \/ pattern[k] = path[k]

\* the handler Express runs for a request: the first route registered for
\* the method whose path matches, or none (404)
Handler(method, path) ==
  LET hits == {k \in DOMAIN Routes : Routes[k].method = method /\ Matches(Routes[k].path, path)}
  IN IF hits = {} THEN "notFound"
     ELSE Routes[CHOOSE k \in hits : \A j \in hits : k <= j].handler

\* the beacons of the beforeunload handler: sendBeacon always sends a POST
PositionBeacon ==
  [method |-> "POST", path |-> <<"api", "notes", "batch">>, ids |-> DOMAIN dirtyPositions,
   positions |-> dirtyPositions, fields |-> EmptyMap, served |-> FALSE,
   handler |-> "", storeCalls |-> 0]
ContentBeacon(noteId) ==
  [method |-> "POST", path |-> <<"api", "notes", String(noteId)>>, ids |-> {noteId},
   positions |-> EmptyMap, fields |-> dirtyContent[noteId], served |-> FALSE,
   handler |-> "", storeCalls |-> 0]

\* the beforeunload handler of the legacy client; the page is gone after it
LegacyBeforeUnload ==
  /\ page = "running"
  /\ page' = "unloaded"
  /\ beacons' = (IF DOMAIN dirtyPositions # {} THEN <<PositionBeacon>> ELSE <<>>)
                \o [k \in 1..Cardinality(DOMAIN dirtyContent) |->
                      ContentBeacon(Sorted(DOMAIN dirtyContent)[k])]
  /\ ev' = "unload" /\ done' = NoFlight
  /\ UNCHANGED <<notes, cache, store, dirtyPositions, dirtyContent, saving, syncTimer,
                 flights, nEdits, nSends, contentTimers, contentTimeouts, patches,
                 now, nLoads, unload, beacon>>
  /\ NoEvolved

\* the proxy receives the k-th beacon and runs the handler of its route; the
\* store accepts every write
LegacyBeaconServe(k) ==
  /\ k \in DOMAIN beacons /\ ~beacons[k].served
  /\ LET b == beacons[k]
         handler == Handler(b.method, b.path)
         written == IF handler \in {"handleBatchUpdate", "updateNote"}
                    THEN b.ids \cap DOMAIN store ELSE {}
     IN /\ store' = [n \in DOMAIN store |->
                       IF n \in written
                       THEN Assign(store[n], IF handler = "handleBatchUpdate"
                                             THEN MergedFields(b.positions, EmptyMap, n)
                                             ELSE b.fields)
                       ELSE store[n]]
        /\ beacons' = [beacons EXCEPT ![k] =
             [b EXCEPT !.served = TRUE, !.handler = handler,
                       !.storeCalls = IF handler = "handleBatchUpdate"
                                      THEN Len(Chunks(Sorted(b.ids), 0))
                                      ELSE IF handler = "updateNote" THEN 1 ELSE 0]]
  /\ ev' = "server" /\ done' = NoFlight
  /\ UNCHANGED <<notes, cache, dirtyPositions, dirtyContent, saving, syncTimer,
                 flights, nEdits, nSends, contentTimers, contentTimeouts, patches>>
  /\ NoEvolved

\* ---- specifications -------------------------------------------------------

ContentMaps(Fs) == UNION {[D -> {Texts[v] : v \in Val}] : D \in (SUBSET Fs) \ {{}}}

\* the handlers of the page and of the proxy
\* Note ids are interchangeable: the notes are numbered in the order in which
\* the user first touches them.
Touchable == {n \in Notes : n = 1 \/ notes[n - 1] # EmptyFields}

\* a run of at most MaxEdits local mutations and MaxSends batch requests
MayEdit == nEdits < MaxEdits
MaySend == WouldSend => nSends < MaxSends
NoClock == UNCHANGED <<reqs, allFailed, revived, armedFor, idleFor>>
NoCount == NoClock /\ NoLegacy
\* the page is neither unloaded nor loaded, and no time passes
OnePage == UNCHANGED <<now, page, nLoads, unload, beacon>>
\* no request other than the batch update reaches the proxy
NoProxy == UNCHANGED <<NOTE_PASSWORD, req, res, calls, deletes>>

Next ==
  \/ \E n \in Touchable, x \in Val, y \in Val : MayEdit /\ DragEnd(n, x, y) /\ NoCount /\ OnePage /\ NoProxy
  \/ \E n \in Touchable, w \in Val, h \in Val : MayEdit /\ ResizeEnd(n, w, h) /\ NoCount /\ OnePage /\ NoProxy
  \/ \E n \in Touchable, v \in Val : MayEdit /\ ContentInput(n, v) /\ NoCount /\ OnePage /\ NoProxy
  \/ MaySend /\ SaveAll /\ NoCount /\ OnePage /\ NoProxy
  \/ MaySend /\ VisibilityHidden /\ NoCount /\ OnePage /\ NoProxy
  \/ MaySend /\ SyncTimerFire /\ NoCount /\ OnePage /\ NoProxy
  \/ \E i \in armedTimeouts : SaveTimeout(i) /\ NoCount /\ OnePage /\ NoProxy
  \/ \E f \in flights : \E saved \in SUBSET Notes, lost \in BOOLEAN :
       HandleBatchUpdate(f, saved, lost) /\ NoCount /\ OnePage /\ NoProxy
  \/ \E f \in flights : Reconcile(f) /\ NoCount /\ OnePage /\ NoProxy

Spec == Init /\ [][Next]_vars

\* the client when debounceSaveContent is called with any field names
NextFields ==
  \/ \E n \in Touchable, x \in Val, y \in Val : MayEdit /\ DragEnd(n, x, y) /\ NoCount /\ OnePage /\ NoProxy
  \/ \E n \in Touchable : \E fields \in ContentMaps(ContentFields) :
       MayEdit /\ ContentEdit(n, fields) /\ NoCount /\ OnePage /\ NoProxy
  \/ MaySend /\ SaveAll /\ NoCount /\ OnePage /\ NoProxy
  \/ MaySend /\ SyncTimerFire /\ NoCount /\ OnePage /\ NoProxy
  \/ \E i \in armedTimeouts : SaveTimeout(i) /\ NoCount /\ OnePage /\ NoProxy
  \/ \E f \in flights : \E saved \in SUBSET Notes, lost \in BOOLEAN :
       HandleBatchUpdate(f, saved, lost) /\ NoCount /\ OnePage /\ NoProxy
  \/ \E f \in flights : Reconcile(f) /\ NoCount /\ OnePage /\ NoProxy

SpecFields == Init /\ [][NextFields]_vars

\* the run that exhausts the retry budget: at most MaxRetryEdits local
\* mutations and MaxRetrySends batch requests.  reqs and allFailed count:
\* a user action starts a new count, a fully successful response ends the
\* run of failures.
MayEditRetry == nEdits < MaxRetryEdits
MaySendRetry == WouldSend => nSends < MaxRetrySends
Count(user) ==
  /\ reqs' = (IF user THEN 0 ELSE reqs) + (nSends' - nSends)
  /\ allFailed' = IF user THEN TRUE ELSE (allFailed /\ ev' # "synced")
  /\ revived' = IF user
                THEN consecutiveSyncFailures >= MAX_SYNC_RETRIES /\ ~LedgerEmpty /\ ~saving
                ELSE revived
  /\ UNCHANGED <<armedFor, idleFor>>
  /\ NoLegacy

NextRetry ==
  \/ \E n \in Touchable, x \in Val, y \in Val : MayEditRetry /\ DragEnd(n, x, y) /\ Count(TRUE) /\ OnePage /\ NoProxy
  \/ \E n \in Touchable, w \in Val, h \in Val : MayEditRetry /\ ResizeEnd(n, w, h) /\ Count(TRUE) /\ OnePage /\ NoProxy
  \/ \E n \in Touchable, v \in Val : MayEditRetry /\ ContentInput(n, v) /\ Count(TRUE) /\ OnePage /\ NoProxy
  \/ MaySendRetry /\ SaveAll /\ Count(TRUE) /\ OnePage /\ NoProxy
  \/ MaySendRetry /\ VisibilityHidden /\ Count(TRUE) /\ OnePage /\ NoProxy
  \/ MaySendRetry /\ SyncTimerFire /\ Count(FALSE) /\ OnePage /\ NoProxy
  \/ \E i \in armedTimeouts : SaveTimeout(i) /\ Count(FALSE) /\ OnePage /\ NoProxy
  \/ \E f \in flights : \E saved \in SUBSET Notes, lost \in BOOLEAN :
       HandleBatchUpdate(f, saved, lost) /\ Count(FALSE) /\ OnePage /\ NoProxy
  \/ \E f \in flights : Reconcile(f) /\ Count(FALSE) /\ OnePage /\ NoProxy

SpecRetry == Init /\ [][NextRetry]_vars

\* the page over its life: edits, flushes, the periodic persist, unload or
\* crash, and the next load with its recovery
MayEditRecovery == page # "unloaded" /\ nEdits < MaxRecoveryEdits
MaySendRecovery == page # "unloaded" /\ (WouldSend => nSends < MaxRecoverySends)
MayLoad ==
  (~saving /\ persisted.present /\ ~Stale) => nSends < MaxRecoverySends
RecoveryTexts == {"long", "longer"}

NextRecovery ==
  \/ \E n \in Touchable, x \in Val :
       MayEditRecovery /\ DragEnd(n, x, x) /\ NoCount /\ OnePage /\ NoProxy
  \/ \E n \in Touchable : MayEditRecovery /\ ResizeClick(n) /\ NoCount /\ OnePage /\ NoProxy
  \/ \E n \in Touchable, text \in RecoveryTexts :
       MayEditRecovery /\ ContentEdit(n, [F \in {"Anteckningar"} |-> text])
         /\ NoCount /\ OnePage /\ NoProxy
  \/ MaySendRecovery /\ SyncTimerFire /\ NoCount /\ OnePage /\ NoProxy
  \/ \E i \in armedTimeouts : page # "unloaded" /\ SaveTimeout(i) /\ NoCount /\ OnePage /\ NoProxy
  \/ \E f \in flights : \E saved \in {{}, RecordIds(f.sentPositions, f.sentContent)} :
       HandleBatchUpdate(f, saved, FALSE) /\ NoCount /\ OnePage /\ NoProxy
  \/ \E f \in flights : page # "unloaded" /\ Reconcile(f) /\ NoCount /\ OnePage /\ NoProxy
  \/ page # "unloaded" /\ PersistTick /\ NoCount /\ NoProxy
  \/ page = "unloaded" /\ now < MaxClock /\ Tick /\ NoCount /\ NoProxy
  \/ BeforeUnload /\ NoCount /\ NoProxy
  \/ Crash /\ NoCount /\ NoProxy
  \/ \E saved \in {{}, RecordIds(beacon.sentPositions, beacon.sentContent)} :
       HandleBeacon(saved) /\ NoCount /\ NoProxy
  \/ nLoads < MaxLoads /\ Boot /\ NoCount /\ NoProxy
  \/ \E fetched \in BOOLEAN : MayLoad /\ LoadNotes(fetched) /\ NoCount /\ NoProxy

SpecRecovery == Init /\ [][NextRecovery]_vars

\* the proxy under the requests that reach it, for every configuration of
\* NOTE_PASSWORD
Passwords == {JSUndefined, Str(""), Str("pw"), Str("bad")}
ChunkOutcomes == {<<200>>, <<429, 200>>, <<500>>, <<429, 429, 429, 429>>}
\* what the store answers to the attempts of one request, up to the attempt
\* that ends them: k times 429, then a last status
Outcomes ==
  UNION {{[j \in 1..(k + 1) |-> IF j <= k THEN 429 ELSE last] :
            last \in IF k = RETRIES THEN Statuses ELSE Statuses \ {429}} :
         k \in 0..RETRIES}
Ids(N) == [k \in 1..N |-> k]

InitProxy == InitClient /\ NOTE_PASSWORD \in {JSUndefined, Str(""), Str("pw")}

\* the record ids of the batch requests tried: N distinct ids, and one request
\* that names its first id again in its second chunk
Requests == {Ids(N) : N \in 0..MaxRecords} \cup {Ids(CHUNK) \o <<1>>}

NextProxy ==
  \/ \E records \in Requests : \E oracle \in [1..Len(Chunks(records, 0)) -> ChunkOutcomes] :
       BatchRequest(records, oracle) /\ NoCount /\ OnePage
  \/ \E id \in Notes, outcomes \in Outcomes :
       UpdateNote(id, outcomes) /\ NoCount /\ OnePage
  \/ \E id \in 1..(MaxNotes + 1), password \in Passwords, storeStatus \in Statuses :
       Unlock(id, password, storeStatus) /\ NoCount /\ OnePage
  \/ \E id \in 1..(MaxNotes + 1), password \in Passwords, storeStatus \in Statuses :
       DeleteRequest(id, password, storeStatus) /\ UNCHANGED deletes /\ NoCount /\ OnePage

SpecProxy == InitProxy /\ [][NextProxy]_vars

\* the timers of the event loop fire once they are due
\* the page with its delete buttons, the proxy and the store; a batch request
\* that names a record the store no longer has is refused whole
MayEditDelete == nEdits < MaxDeleteEdits
MaySendDelete == WouldSend => nSends < MaxDeleteSends
MayDelete == Cardinality(deletes) < MaxDeletes
Prompted == {"", "pw", "bad"}
Storable(f) == IF RecordIds(f.sentPositions, f.sentContent) \subseteq DOMAIN store
               THEN RecordIds(f.sentPositions, f.sentContent) ELSE {}

NextDelete ==
  \/ \E n \in DOMAIN notes, x \in Val :
       MayEditDelete /\ DragEnd(n, x, x) /\ NoCount /\ OnePage /\ NoProxy
  \/ \E n \in DOMAIN notes :
       MayEditDelete /\ ContentEdit(n, [F \in {"Anteckningar"} |-> Texts[1]])
         /\ NoCount /\ OnePage /\ NoProxy
  \/ MaySendDelete /\ SyncTimerFire /\ NoCount /\ OnePage /\ NoProxy
  \/ \E f \in flights : \E saved \in {{}, Storable(f)} :
       HandleBatchUpdate(f, saved, FALSE) /\ NoCount /\ OnePage /\ NoProxy
  \/ \E f \in flights : Reconcile(f) /\ NoCount /\ OnePage /\ NoProxy
  \/ \E n \in DOMAIN notes : DeleteCancel(n) /\ NoCount /\ OnePage
  \/ \E n \in DOMAIN notes, pw \in Prompted :
       MayDelete /\ DeleteSubmit(n, pw) /\ NoCount /\ OnePage
  \/ \E d \in deletes, storeStatus \in Statuses, lost \in BOOLEAN :
       DeleteServe(d, storeStatus, lost) /\ NoCount /\ OnePage
  \/ \E d \in deletes : DeleteDone(d) /\ NoCount /\ OnePage

SpecDelete == InitProxy /\ [][NextDelete]_vars

\* the page with the clock of its sync timer: edits, the timer and the
\* answers, and neither the save button nor a hidden tab

\* the step called scheduleBatchSync: a local mutation, flushAllDirty finding
\* a flush running, or a failed attempt with retries left
Rearmed ==
  \/ nEdits' > nEdits
  \/ ev' = "busy"
  \/ ev' \in {"partial", "catch", "timeout"} /\ consecutiveSyncFailures' < MAX_SYNC_RETRIES

\* a scheduleBatchSync that lets a pending timer run on
ScheduleBatchSyncKeepsPending(called) ==
  armedFor' = IF called /\ ~syncTimer THEN 0 ELSE armedFor

\* scheduleBatchSync: clearTimeout, then setTimeout(flushAllDirty, SYNC_DEBOUNCE_MS)
ScheduleBatchSync(called) ==
  armedFor' = IF called THEN 0 ELSE armedFor

Timed ==
  /\ ScheduleBatchSync(Rearmed)
  /\ idleFor' = IF nEdits' > nEdits THEN 0 ELSE idleFor
  /\ UNCHANGED <<reqs, allFailed, revived>>
  /\ NoLegacy

\* TickMs pass
Elapse ==
  /\ armedFor' = Min(armedFor + TickMs, SYNC_DEBOUNCE_MS)
  /\ idleFor' = Min(idleFor + TickMs, SYNC_DEBOUNCE_MS)
  /\ ev' = "edit" /\ done' = NoFlight
  /\ UNCHANGED <<notes, cache, store, dirtyPositions, dirtyContent, saving, syncTimer,
                 saveTimeoutTimer, armedTimeouts, consecutiveSyncFailures, persisted,
                 flights, nEdits, nSends, reqs, allFailed, revived>>
  /\ NoLegacy

\* the timer set SYNC_DEBOUNCE_MS ago or longer may fire
SyncTimerDue == syncTimer /\ armedFor >= SYNC_DEBOUNCE_MS

NextDebounce ==
  \/ \E n \in Touchable, x \in Val : MayEdit /\ DragEnd(n, x, x) /\ Timed /\ OnePage /\ NoProxy
  \/ \E n \in Touchable, v \in Val : MayEdit /\ ContentInput(n, v) /\ Timed /\ OnePage /\ NoProxy
  \/ MaySend /\ SyncTimerDue /\ SyncTimerFire /\ Timed /\ OnePage /\ NoProxy
  \/ \E i \in armedTimeouts : SaveTimeout(i) /\ Timed /\ OnePage /\ NoProxy
  \/ \E f \in flights : \E saved \in {{}, RecordIds(f.sentPositions, f.sentContent)} :
       HandleBatchUpdate(f, saved, FALSE) /\ Timed /\ OnePage /\ NoProxy
  \/ \E f \in flights : Reconcile(f) /\ Timed /\ OnePage /\ NoProxy
  \/ Elapse /\ OnePage /\ NoProxy

SpecDebounce == Init /\ [][NextDebounce]_vars

\* the proxy's reading routes over a table that other clients write
ListTexts == {"", "a"}
PageSizes == 1..MaxListed
ListOutcomes == {<<200>>, <<500>>}

NextList ==
  \/ \E id \in 1..MaxListed : StoreCreate(id) /\ NoCount /\ OnePage
  \/ \E id \in 1..MaxListed, text \in ListTexts, locked \in BOOLEAN :
       StoreWrite(id, text, locked) /\ NoCount /\ OnePage
  \/ \E size \in PageSizes, failAt \in 0..MaxListed :
       \E status \in IF failAt = 0 THEN {NoStatus} ELSE Statuses \ {200} :
         ListNotes(size, failAt, status) /\ NoCount /\ OnePage
  \/ \E id \in 1..MaxListed, password \in Passwords, storeStatus \in {200, 500} :
       Unlock(id, password, storeStatus) /\ NoCount /\ OnePage
  \/ \E id \in 1..MaxListed, outcomes \in ListOutcomes :
       UpdateNote(id, outcomes) /\ NoCount /\ OnePage

SpecList == InitProxy /\ [][NextList]_vars

\* the legacy client with its timers, its requests, the delete button and
\* the unload of the page
MayEditLegacy == nEdits < MaxLegacyEdits
MaySendLegacy == nSends < MaxLegacySends

NextLegacy ==
  \/ \E n \in DOMAIN notes, v \in Val :
       MayEditLegacy /\ LegacyContentInput(n, [F \in {"Anteckningar"} |-> Texts[v]])
         /\ NoClock /\ OnePage /\ NoProxy
  \/ \E t \in contentTimeouts :
       MaySendLegacy /\ ContentTimerFire(t) /\ NoClock /\ OnePage /\ NoProxy
  \/ MaySendLegacy /\ LegacySaveAll /\ NoClock /\ OnePage /\ NoProxy
  \/ \E p \in patches, storeOk \in BOOLEAN :
       LegacyPatchServe(p, storeOk) /\ NoClock /\ OnePage /\ NoProxy
  \/ \E p \in patches : LegacyPatchDone(p) /\ NoClock /\ OnePage /\ NoProxy
  \/ LegacyElapse /\ NoClock /\ OnePage /\ NoProxy
  \/ \E n \in DOMAIN notes :
       MayDelete /\ DeleteSubmit(n, "pw") /\ NoCount /\ OnePage
  \/ \E d \in deletes : DeleteServe(d, 200, FALSE) /\ NoCount /\ OnePage
  \/ \E d \in deletes : DeleteDone(d) /\ NoCount /\ OnePage

SpecLegacy == Init /\ [][NextLegacy]_vars

\* the legacy client up to the unload of its page, and the proxy with the
\* beacons of the unload
NextLegacyUnload ==
  \/ \E n \in DOMAIN notes, v \in Val :
       MayEditLegacy /\ LegacyContentInput(n, [F \in {"Anteckningar"} |-> Texts[v]])
         /\ NoClock /\ OnePage /\ NoProxy
  \/ \E n \in DOMAIN notes, x \in Val :
       MayEditLegacy /\ LegacyDragEnd(n, x, x) /\ NoClock /\ OnePage /\ NoProxy
  \/ MaySendLegacy /\ IdleTimerFire /\ NoClock /\ OnePage /\ NoProxy
  \/ \E f \in flights : \E saved \in {{}, Storable(f)} :
       HandleBatchUpdate(f, saved, FALSE) /\ NoCount /\ OnePage /\ NoProxy
  \/ \E f \in flights : LegacyPositionsDone(f) /\ NoClock /\ OnePage /\ NoProxy
  \/ LegacyBeforeUnload /\ NoClock /\ NoProxy
  \/ \E k \in DOMAIN beacons :
       LegacyBeaconServe(k) /\ NoClock /\ OnePage /\ NoProxy

SpecLegacyUnload == Init /\ [][NextLegacyUnload]_vars

\* the page with its delete buttons over two lives: edits, the periodic
\* persist, deletes, a crash, and the next load with its recovery
NextDeleteRecovery ==
  \/ \E n \in DOMAIN notes, x \in Val :
       page # "unloaded" /\ MayEditDelete /\ DragEnd(n, x, x) /\ NoCount /\ OnePage /\ NoProxy
  \/ page # "unloaded" /\ MaySendDelete /\ SyncTimerFire /\ NoCount /\ OnePage /\ NoProxy
  \/ \E f \in flights : \E saved \in {{}, Storable(f)} :
       HandleBatchUpdate(f, saved, FALSE) /\ NoCount /\ OnePage /\ NoProxy
  \/ \E f \in flights : page # "unloaded" /\ Reconcile(f) /\ NoCount /\ OnePage /\ NoProxy
  \/ page # "unloaded" /\ PersistTick /\ NoCount /\ NoProxy
  \/ \E n \in DOMAIN notes :
       page # "unloaded" /\ MayDelete /\ DeleteSubmit(n, "pw") /\ NoCount /\ OnePage
  \/ \E d \in deletes : DeleteServe(d, 200, FALSE) /\ NoCount /\ OnePage
  \/ \E d \in deletes : page # "unloaded" /\ DeleteDone(d) /\ NoCount /\ OnePage
  \/ Crash /\ NoCount /\ NoProxy
  \/ nLoads < MaxLoads /\ Boot /\ deletes' = {} /\ NoCount
       /\ UNCHANGED <<NOTE_PASSWORD, req, res, calls>>
  \/ \E fetched \in BOOLEAN : MayLoad /\ LoadNotes(fetched) /\ NoCount /\ NoProxy

SpecDeleteRecovery == Init /\ [][NextDeleteRecovery]_vars

SpecFair == Spec /\ WF_vars(\E i \in armedTimeouts : SaveTimeout(i) /\ NoCount /\ OnePage /\ NoProxy)

\* ---- properties -----------------------------------------------------------

\* no pending local change and no batch request undelivered or unanswered
Quiescent == LedgerEmpty /\ flights = {}

\* C1: in every quiescent state (both ledger maps empty, no batch request of
\* flushAllDirty undelivered or unanswered) the backing store holds, for every
\* field of every note, the user's most recent local value.
C1_NoLostEdit ==
  Quiescent => \A n \in Notes : \A F \in AllFields : store[n][F] = notes[n][F]

\* C2: the failure paths of flushAllDirty (the catch block, the safety
\* timeout) delete nothing: both ledger maps are the same after the step.
C2_FailureKeepsLedger ==
  [][ev' \in {"catch", "timeout"}
       => dirtyPositions' = dirtyPositions /\ dirtyContent' = dirtyContent]_vars

C2_Witness ==
  /\ ev = "catch"
  /\ DOMAIN done.sentPositions # {} /\ DOMAIN done.sentContent # {}
  /\ DOMAIN dirtyPositions # {} /\ DOMAIN dirtyContent # {}

\* C3: reconciling a response deletes dirtyContent[id] only if the entry is
\* equal, field for field, to the snapshot sent for id: same fields, same values.
C3_ContentClearedOnlyIfUnchanged ==
  [][done' # NoFlight
       => \A id \in (DOMAIN dirtyContent) \ (DOMAIN dirtyContent') :
            /\ id \in DOMAIN done'.sentContent
            /\ dirtyContent[id] = done'.sentContent[id]]_vars

\* C4: reconciling a response deletes dirtyPositions[id] only if x, y, w and h
\* of the entry equal those of the snapshot sent for id; every other entry
\* stays as it is.
C4_PositionClearedOnlyIfUnchanged ==
  [][done' # NoFlight
       => \A id \in DOMAIN dirtyPositions :
            IF id \in DOMAIN dirtyPositions'
            THEN dirtyPositions'[id] = dirtyPositions[id]
            ELSE /\ id \in DOMAIN done'.sentPositions
                 /\ dirtyPositions[id] = done'.sentPositions[id]]_vars

\* a resize or drag during the request changed a sent entry, and it stayed
C4_Witness ==
  /\ ev = "synced"
  /\ \E id \in done.records \cap DOMAIN done.sentPositions \cap DOMAIN dirtyPositions :
       dirtyPositions[id] # done.sentPositions[id]

\* C5: reconciling a response leaves the dirtyPositions and dirtyContent
\* entries of every note id that is not in response.records unchanged.
C5_OnlySucceededIdsCleared ==
  [][done' # NoFlight
       => \A id \in Notes \ done'.records :
            /\ id \in DOMAIN dirtyPositions
                 => id \in DOMAIN dirtyPositions' /\ dirtyPositions'[id] = dirtyPositions[id]
            /\ id \in DOMAIN dirtyContent
                 => id \in DOMAIN dirtyContent' /\ dirtyContent'[id] = dirtyContent[id]]_vars

\* a partial success: one sent id cleared, another one, reported failed, kept
C5_Witness ==
  /\ ev = "partial"
  /\ \E id \in done.records : id \notin (DOMAIN dirtyPositions) \cup (DOMAIN dirtyContent)
  /\ \E id \in RecordIds(done.sentPositions, done.sentContent) \ done.records :
       id \in (DOMAIN dirtyPositions) \cup (DOMAIN dirtyContent)

\* the value invocation f sent for field F of note n ("-" if it sent none)
SentField(f, n, F) ==
  LET fields == MergedFields(f.sentPositions, f.sentContent, n)
  IN IF F \in DOMAIN fields THEN fields[F] ELSE "-"

\* C6: if field F of note n was edited while the request of an invocation was
\* out, and the new value is not the one that was sent, then after that
\* invocation's reconciliation the ledger holds n with the new value and the
\* sync timer is armed.
C6_EditsDuringFlightKept ==
  [][done' # NoFlight
       => \A e \in done'.edited :
            SentField(done', e[1], e[2]) # notes[e[1]][e[2]]
              => /\ SentField([sentPositions |-> dirtyPositions', sentContent |-> dirtyContent'],
                              e[1], e[2]) = notes[e[1]][e[2]]
                 /\ syncTimer']_vars

\* C7: at most one batch request of flushAllDirty is in flight.
C7_OneRequestInFlight == Cardinality(flights) <= 1

\* C8: state.saving never stays true forever (the safety timeout clears it even
\* if the request never completes), and a flushAllDirty call that finds it
\* false and the ledger non-empty sends a request.
C8_TimeoutUnblocks ==
  /\ saving ~> ~saving
  /\ [][(~saving /\ ~LedgerEmpty /\ ev' \in {"sent", "busy", "empty"})
          => nSends' = nSends + 1 /\ saving']_vars

\* the timeout cleared the flag while the request is still out
C8_Witness == ev = "timeout" /\ ~saving /\ \E f \in flights : f.phase = "sent"

\* C10: while every response since the last user action was a failure, at
\* most MAX_SYNC_RETRIES batch requests have been sent since that action, and
\* once that many were sent no sync timer is armed.
C10_RetriesBounded ==
  allFailed => /\ reqs <= MAX_SYNC_RETRIES
               /\ reqs = MAX_SYNC_RETRIES => ~syncTimer

\* the budget is used up: three requests sent and failed, nothing scheduled
C10_Witness ==
  /\ allFailed /\ reqs = MAX_SYNC_RETRIES
  /\ flights = {} /\ ~LedgerEmpty /\ ~syncTimer /\ ~saving
  /\ consecutiveSyncFailures >= MAX_SYNC_RETRIES

\* C9: a call of flushAllDirty that finds state.saving true and the ledger
\* non-empty sends no request, leaves dirtyPositions and dirtyContent as they
\* are, and returns with the sync timer armed.
C9_CollisionReschedules ==
  [][(saving /\ ~LedgerEmpty /\ ev' \in {"sent", "busy", "empty"})
       => /\ flights' = flights /\ nSends' = nSends
          /\ dirtyPositions' = dirtyPositions /\ dirtyContent' = dirtyContent
          /\ syncTimer' = TRUE]_vars

C9_Witness == ev = "busy" /\ saving /\ ~LedgerEmpty /\ syncTimer /\ flights # {}

\* C11: every drag end, resize end and content input sets
\* consecutiveSyncFailures to 0 and arms the sync timer; the save button sets
\* it to 0 and, when the retries are exhausted, the ledger is non-empty and
\* state.saving is false, sends a batch request in the same step.
C11_UserActionRestoresBudget ==
  /\ [][nEdits' = nEdits + 1 => consecutiveSyncFailures' = 0 /\ syncTimer']_vars
  /\ [][SaveAll => consecutiveSyncFailures' = 0]_vars
  /\ [][(SaveAll /\ consecutiveSyncFailures >= MAX_SYNC_RETRIES /\ ~LedgerEmpty /\ ~saving)
          => nSends' = nSends + 1 /\ saving' /\ ev' = "sent"]_vars

\* the save button sent the request that the exhausted retries no longer would
C11_Witness ==
  /\ revived /\ ev = "sent" /\ reqs = 1
  /\ consecutiveSyncFailures = 0 /\ saving

\* C12: when restoreDirtyState finds an item whose ts is more than 5 minutes
\* before the current time, it adds nothing to either ledger map and removes
\* the item; when the item is at most 5 minutes old, every saved entry whose
\* note id is not yet in the ledger map is in it afterwards.
C12_StaleStateDiscarded ==
  [][(page = "loading" /\ page' = "running" /\ persisted.present)
       => IF now - persisted.ts > STALE_MINUTES
          THEN /\ dirtyPositions' = dirtyPositions /\ dirtyContent' = dirtyContent
               /\ ~persisted'.present
          ELSE /\ \A id \in (DOMAIN persisted.positions) \ (DOMAIN dirtyPositions) :
                    /\ id \in DOMAIN dirtyPositions'
                    /\ dirtyPositions'[id] = ParsedPos(persisted.positions[id])
               /\ \A id \in (DOMAIN persisted.content) \ (DOMAIN dirtyContent) :
                    /\ id \in DOMAIN dirtyContent'
                    /\ dirtyContent'[id] = persisted.content[id]]_vars

\* an item written six minutes or more before the load was dropped
C12_Witness ==
  /\ ev = "stale" /\ page = "running" /\ LedgerEmpty /\ ~persisted.present
  /\ now > STALE_MINUTES + 1

\* C13: persistDirtyState of a ledger L followed, within the staleness
\* threshold and with no persist in between, by restoreDirtyState into an
\* empty ledger yields a ledger equal to L, and the flushAllDirty that
\* loadNotes starts sends the recovered entries.
C13_RecoveryRoundTrip ==
  [][(page = "loading" /\ page' = "running" /\ persisted.present /\ LedgerEmpty
        /\ now - persisted.ts <= STALE_MINUTES)
       => /\ dirtyPositions' = persisted.of
          /\ dirtyContent' = persisted.content
          /\ \E f \in flights' \ flights :
               f.sentPositions = dirtyPositions' /\ f.sentContent = dirtyContent']_vars

C15_PasswordFailsClosed ==
  [][(ev' = "server"
        /\ req'.route \in {"DELETE /api/notes/:id", "POST /api/notes/:id/unlock"}
        /\ req'.password # NOTE_PASSWORD)
       => res'.status = 403 /\ calls' = <<>> /\ store' = store]_vars

\* a delete with a password was refused by a proxy without NOTE_PASSWORD
C15_Witness ==
  /\ NOTE_PASSWORD = JSUndefined
  /\ req.route = "DELETE /api/notes/:id" /\ req.password = Str("pw")
  /\ req.id \in DOMAIN store
  /\ res.status = 403 /\ calls = <<>>

\* the store requests that are first attempts
FirstAttempts == SelectSeq(calls, LAMBDA c : c.attempt = 0)

RECURSIVE Concat(_)
Concat(seqs) == IF seqs = <<>> THEN <<>> ELSE Head(seqs) \o Concat(Tail(seqs))

\* the answer to the last batch request is 200 and splits the ids of the
\* request between records and errors; every chunk was attempted and a failed
\* chunk is one errors entry
Partitioned ==
       /\ res.status = 200
       /\ \A id \in Range(req.records) :
            (id \in Range(res.records))
              # (\E e \in DOMAIN res.errors : id \in Range(res.errors[e].ids))
       /\ \A k \in DOMAIN calls :
            (calls[k].status # 200 /\ (k = Len(calls) \/ calls[k + 1].attempt = 0))
              => \E e \in DOMAIN res.errors : res.errors[e].ids = calls[k].records
       /\ Range(req.records) = UNION {Range(calls[k].records) : k \in DOMAIN calls}

\* C17: the answer to a batch update request with records R is 200 with
\* {records, errors} where every id of R is in exactly one of records and the
\* ids of the errors entries; a failing chunk has all its ids under one errors
\* entry, and every later chunk is still attempted.
C17_BatchResponsePartitions ==
  req.route = "PATCH /api/notes/batch" => Partitioned

\* C17, for requests that name no id twice: the answer is 200 and every id
\* of the request is in exactly one of records and the ids of the errors
\* entries, and there once; a failing chunk has its ids under one errors
\* entry, and every chunk is attempted.
C17_DistinctIdsPartition ==
  (req.route = "PATCH /api/notes/batch"
     /\ Cardinality(Range(req.records)) = Len(req.records))
    => /\ Partitioned
       /\ Len(res.records \o Concat([e \in DOMAIN res.errors |-> res.errors[e].ids]))
            = Len(req.records)

\* the first chunk failed, a later one was written
C17_Witness ==
  /\ req.route = "PATCH /api/notes/batch" /\ req.records = Ids(MaxRecords)
  /\ Len(res.errors) = 1 /\ res.errors[1].ids = SubSeq(req.records, 1, CHUNK)
  /\ Len(res.records) = MaxRecords - CHUNK

\* C18: for a batch update request with N records handleBatchUpdate issues
\* exactly ceil(N/10) store writes, the retries after a 429 not counted, each
\* with 1 to 10 records; the chunks are consecutive slices of the request in
\* order, so every record is in exactly one chunk.
C18_StoreWriteLimit ==
  req.route = "PATCH /api/notes/batch"
    => /\ Len(FirstAttempts) = (Len(req.records) + 9) \div 10
       /\ \A k \in DOMAIN calls :
            /\ calls[k].method = "PATCH"
            /\ Len(calls[k].records) \in 1..10
       /\ Concat([k \in DOMAIN FirstAttempts |-> FirstAttempts[k].records]) = req.records

\* 21 records: two writes of 10 and one of 1
C18_Witness ==
  /\ req.route = "PATCH /api/notes/batch" /\ Len(req.records) = 2 * CHUNK + 1
  /\ Len(FirstAttempts) = 3 /\ Len(FirstAttempts[3].records) = 1

\* C19: airtableRequestWithRetry tries again only after a 429, waits 1000,
\* 2000 and 4000 ms before attempts 2, 3 and 4, makes at most 4 attempts,
\* throws the first error that is not a 429, and the 429 of the last attempt,
\* as it is, and returns a success at once.
C19_BackoffBounded ==
  req.route = "PATCH /api/notes/:id"
    => /\ Len(calls) \in 1..4
       /\ \A k \in DOMAIN calls :
            /\ calls[k].attempt = k - 1
            /\ calls[k].delay = <<0, 1000, 2000, 4000>>[k]
            /\ k < Len(calls) => calls[k].status = 429
       /\ (calls[Len(calls)].status = 429) => Len(calls) = 4
       /\ res.status = IF calls[Len(calls)].status = NoStatus THEN 500
                       ELSE calls[Len(calls)].status

\* four attempts, all answered 429
C19_Witness ==
  /\ req.route = "PATCH /api/notes/:id"
  /\ Len(calls) = 4 /\ calls[4].delay = 4000 /\ res.status = 429

\* the DELETE request whose answer the step handles
Answered == deletes \ deletes'

\* C16: when the DELETE request for note n fails, by a wrong password or any
\* error, state.notes still contains n and n's entries of dirtyPositions and
\* dirtyContent are unchanged; a cancelled prompt sends no request; only a
\* successful DELETE takes n from state.notes, and it takes n's entries from
\* both ledger maps.
C16_RejectedDeleteNoEffect ==
  /\ [][\A d \in Answered :
          (d.phase = "answered" /\ d.status # 200)
            => /\ notes' = notes
               /\ dirtyPositions' = dirtyPositions /\ dirtyContent' = dirtyContent]_vars
  /\ [][\A d \in deletes' :
          (d.phase = "answered" /\ d.password # NOTE_PASSWORD) => d.status # 200]_vars
  /\ [][ev' = "cancel"
          => deletes' = deletes /\ req' = req /\ calls' = calls /\ store' = store
             /\ notes' = notes /\ dirtyPositions' = dirtyPositions
             /\ dirtyContent' = dirtyContent]_vars
  /\ [][\A n \in DOMAIN notes \ DOMAIN notes' :
          \E d \in Answered : d.id = n /\ d.phase = "answered" /\ d.status = 200]_vars
  /\ [][\A d \in Answered :
          (d.phase = "answered" /\ d.status = 200)
            => /\ d.id \notin DOMAIN notes'
               /\ d.id \notin DOMAIN dirtyPositions'
               /\ d.id \notin DOMAIN dirtyContent']_vars

\* a delete with a wrong password was refused while the note had pending
\* position and content edits
C16_Witness ==
  /\ ev = "rejected" /\ res.status = 403
  /\ req.id \in DOMAIN notes
  /\ req.id \in DOMAIN dirtyPositions /\ req.id \in DOMAIN dirtyContent
  /\ req.password # NOTE_PASSWORD

\* C20: the request built by flushAllDirty has a record for exactly the ids
\* of dirtyPositions and dirtyContent, and the fields of the record of a note
\* are its pending x, y, w, h that are defined, as the strings 'Position X',
\* 'Position Y', 'Size W', 'Size H', and all its pending content fields, as
\* the ledger holds them when the request is built.
C20_OneMergedRecordPerNote ==
  [][nSends' = nSends + 1
       => \A f \in flights' \ flights :
            /\ RecordIds(f.sentPositions, f.sentContent)
                 = (DOMAIN dirtyPositions) \cup (DOMAIN dirtyContent)
            /\ \A id \in RecordIds(f.sentPositions, f.sentContent) :
                 LET fields == MergedFields(f.sentPositions, f.sentContent, id)
                     pending == IF id \in DOMAIN dirtyContent THEN dirtyContent[id]
                                ELSE EmptyMap
                     defined == {F \in PosFields : /\ id \in DOMAIN dirtyPositions
                                                    /\ PosOf(dirtyPositions[id], F) # Undefined}
                 IN /\ DOMAIN fields = defined \cup DOMAIN pending
                    /\ \A F \in defined : fields[F] = String(PosOf(dirtyPositions[id], F))
                    /\ \A F \in DOMAIN pending : fields[F] = pending[F]]_vars

\* a request was sent whose one record carries the position and the content
\* field of a note that is in both maps
C20_Witness ==
  /\ ev = "sent"
  /\ \E f \in flights :
       /\ f.fid = nSends /\ f.phase = "sent"
       /\ \E id \in DOMAIN f.sentPositions \cap DOMAIN f.sentContent :
            DOMAIN MergedFields(f.sentPositions, f.sentContent, id)
              = {"Position X", "Position Y", "Anteckningar"}
       /\ Cardinality(RecordIds(f.sentPositions, f.sentContent)) = 1

\* the pending entry of note n, all undefined when there is none
Pending(n) == IF n \in DOMAIN dirtyPositions THEN dirtyPositions[n] ELSE NoPos

\* C21: a drag end on note n sets x and y of dirtyPositions[n] and leaves its
\* pending w and h as they were; a resize end sets w and h and leaves x and y;
\* the entries of the other notes and dirtyContent are unchanged.  So every
\* coordinate an entry holds is the one set last, which is the one the note
\* shows (state.notes).
C21_PositionSizeMergeAdditively ==
  /\ [][\A n \in Notes, a \in Val, b \in Val :
          /\ DragEnd(n, a, b)
               => /\ dirtyPositions'[n] = [x |-> a, y |-> b, w |-> Pending(n).w, h |-> Pending(n).h]
                  /\ \A m \in Notes \ {n} :
                       /\ (m \in DOMAIN dirtyPositions') = (m \in DOMAIN dirtyPositions)
                       /\ m \in DOMAIN dirtyPositions => dirtyPositions'[m] = dirtyPositions[m]
                  /\ dirtyContent' = dirtyContent
          /\ ResizeEnd(n, a, b)
               => /\ dirtyPositions'[n] = [x |-> Pending(n).x, y |-> Pending(n).y, w |-> a, h |-> b]
                  /\ \A m \in Notes \ {n} :
                       /\ (m \in DOMAIN dirtyPositions') = (m \in DOMAIN dirtyPositions)
                       /\ m \in DOMAIN dirtyPositions => dirtyPositions'[m] = dirtyPositions[m]
                  /\ dirtyContent' = dirtyContent]_vars
  /\ [](\A n \in DOMAIN dirtyPositions : \A F \in PosFields :
          PosOf(dirtyPositions[n], F) # Undefined
            => notes[n][F] = String(PosOf(dirtyPositions[n], F)))

\* a note was resized and then dragged before any flush: its entry holds all
\* four coordinates
C21_Witness ==
  /\ ev = "edit" /\ nSends = 0 /\ nEdits = 2
  /\ 1 \in DOMAIN dirtyPositions
  /\ \A F \in PosFields : PosOf(dirtyPositions[1], F) # Undefined

\* the pending content of note n, empty when there is none
PendingContent(n) == IF n \in DOMAIN dirtyContent THEN dirtyContent[n] ELSE EmptyMap

\* C22: debounceSaveContent(n, fields) sets the fields it names in
\* dirtyContent[n] and leaves the other fields of n and the entries of the
\* other notes as they were.  So as long as the entry is not cleared it maps
\* every field name that occurred to the value of the last call that had it,
\* which is the value the note shows.
C22_ContentMergesPerField ==
  /\ [][\A n \in Notes : \A fields \in ContentMaps(ContentFields) :
          ContentEdit(n, fields)
            => /\ DOMAIN dirtyContent' = DOMAIN dirtyContent \cup {n}
               /\ DOMAIN dirtyContent'[n] = DOMAIN PendingContent(n) \cup DOMAIN fields
               /\ \A F \in DOMAIN fields : dirtyContent'[n][F] = fields[F]
               /\ \A F \in DOMAIN PendingContent(n) \ DOMAIN fields :
                    dirtyContent'[n][F] = dirtyContent[n][F]
               /\ \A m \in DOMAIN dirtyContent \ {n} : dirtyContent'[m] = dirtyContent[m]
               /\ dirtyPositions' = dirtyPositions]_vars
  /\ [](\A n \in DOMAIN dirtyContent : \A F \in DOMAIN dirtyContent[n] :
          dirtyContent[n][F] = notes[n][F])

\* two calls for one note with different field names, then a call that
\* names the first field again with another value
C22_Witness ==
  /\ ev = "edit" /\ nSends = 0 /\ nEdits = 2
  /\ 1 \in DOMAIN dirtyContent
  /\ DOMAIN dirtyContent[1] = ContentFields
  /\ dirtyContent[1]["Anteckningar"] # dirtyContent[1]["Område"]

\* the request of the step carries a record for every note of the ledger
CarriesAll ==
  \A f \in flights' \ flights :
    RecordIds(f.sentPositions, f.sentContent) = (DOMAIN dirtyPositions) \cup (DOMAIN dirtyContent)

\* every local mutation arms the sync timer anew, and without save button and
\* hidden tab no request is sent sooner than SYNC_DEBOUNCE_MS after the last
\* local mutation
Debounced ==
  /\ [][nEdits' > nEdits => syncTimer' /\ armedFor' = 0]_vars
  /\ [][nSends' > nSends => idleFor >= SYNC_DEBOUNCE_MS]_vars
  /\ [][nSends' - nSends \in {0, 1}]_vars

Redacted(table) ==
  [id \in DOMAIN table |-> IF Truthy(table[id], "Lösenord")
                           THEN [table[id] EXCEPT !["Anteckningar"] = ""] ELSE table[id]]

\* the list response has an empty 'Anteckningar' for every locked record, and
\* it is the same for two tables that differ in the text of locked records only
ListSanitized ==
  /\ [][(ev' = "server" /\ req'.route = "GET /api/notes")
          => \A id \in DOMAIN res'.fields :
               Truthy(store[id], "Lösenord") => res'.fields[id]["Anteckningar"] = ""]_vars
  /\ [](\A size \in PageSizes, failAt \in 0..MaxListed :
          ListResult(store, size, failAt, 500) = ListResult(Redacted(store), size, failAt, 500))

\* C24: the response of GET /api/notes has an empty 'Anteckningar' for each
\* record whose 'Lösenord' is truthy; two store states that differ only in
\* the text of locked notes get the same response; and the text of a locked
\* note is in a response only of POST /api/notes/:id/unlock with the correct
\* password.
C24_LockedContentDoesNotLeak ==
  /\ ListSanitized
  /\ [][ev' = "server"
          => \A id \in DOMAIN store \cap DOMAIN res'.fields :
               (/\ Truthy(store[id], "Lösenord") /\ Truthy(store[id], "Anteckningar")
                /\ "Anteckningar" \in DOMAIN res'.fields[id]
                /\ res'.fields[id]["Anteckningar"] = store[id]["Anteckningar"])
                 => /\ req'.route = "POST /api/notes/:id/unlock"
                    /\ req'.password = NOTE_PASSWORD]_vars

\* C25: GET /api/notes asks the store for pages, the first without offset
\* and each next one with the offset token of the page before, until a page
\* comes without a token; the response then has the records of every page
\* once and in page order; a store error on any page gives an error response
\* without records.
C25_PaginationComplete ==
  [][(ev' = "server" /\ req'.route = "GET /api/notes")
       => /\ Len(calls') >= 1 /\ calls'[1].offset = 0
          /\ \A k \in 2..Len(calls') : calls'[k].offset = calls'[k - 1].next
          /\ \A k \in 1..(Len(calls') - 1) : calls'[k].status = 200 /\ calls'[k].next # 0
          /\ calls'[Len(calls')].status = 200
               => /\ calls'[Len(calls')].next = 0
                  /\ res'.status = 200
                  /\ res'.records = Concat([k \in DOMAIN calls' |-> calls'[k].records])
                  /\ res'.records = Sorted(DOMAIN store)
          /\ calls'[Len(calls')].status # 200
               => /\ res'.status = ErrStatus(calls'[Len(calls')].status)
                  /\ res'.records = <<>> /\ res'.fields = EmptyMap]_vars

\* three pages of one record each
C25_Witness ==
  /\ req.route = "GET /api/notes" /\ res.status = 200
  /\ Len(calls) = 3 /\ calls[3].offset = 2
  /\ res.records = <<1, 2, 3>>

\* ---- C26 -----------------------------------------------------------------

\* the pending timers of note n
TimersOf(S, n) == {t \in S : t.note = n}

\* a content edit of n leaves exactly one pending timer of n, armed anew for
\* SAVE_DEBOUNCE_MS, and the timers of the other notes as they were
ArmsOneTimer ==
  nEdits' = nEdits + 1 =>
    \E n \in DOMAIN notes :
      /\ TimersOf(contentTimeouts', n) =
           {[tid |-> nEdits', note |-> n, delay |-> SAVE_DEBOUNCE_MS, age |-> 0]}
      /\ \A m \in Notes \ {n} : TimersOf(contentTimeouts', m) = TimersOf(contentTimeouts, m)

\* the callback of timer t ran in this step
Fired(t) == t \in contentTimeouts /\ t \notin contentTimeouts' /\ ev' \in {"patch", "nothing"}

\* the step sent exactly one PATCH, for the note of t, with the fields merged
\* for it, and left the timers and the fields of the other notes alone
SendsOnePatch(t) ==
  /\ t.note \in DOMAIN dirtyContent
  /\ patches \subseteq patches'
  /\ \E p \in patches' \ patches :
       /\ patches' \ patches = {p}
       /\ p.note = t.note /\ p.fields = dirtyContent[t.note] /\ p.phase = "sent"
  /\ contentTimeouts' = contentTimeouts \ {t}
  /\ dirtyContent' = Without(dirtyContent, {t.note})

OneTimerPerNote == \A n \in Notes : Cardinality(TimersOf(contentTimeouts, n)) <= 1

C27_UnloadBeaconsReachHandlers ==
  page = "unloaded" =>
    /\ \A k \in DOMAIN beacons :
         beacons[k].served => beacons[k].handler \in {"handleBatchUpdate", "updateNote"}
    /\ (\A k \in DOMAIN beacons : beacons[k].served) =>
         Sum([k \in DOMAIN beacons |-> beacons[k].storeCalls], DOMAIN beacons)
           = ((Cardinality(DOMAIN dirtyPositions) + CHUNK - 1) \div CHUNK)
               + Cardinality(DOMAIN dirtyContent)

\* ---- C28 -----------------------------------------------------------------

\* C28: while the page runs and the ledger is not empty, a sync timer is
\* armed, or a flush is running (state.saving), or the retries are exhausted
C28_NoStrandedEdits ==
  (page = "running" /\ ~LedgerEmpty) =>
    \/ syncTimer
    \/ saving
    \/ consecutiveSyncFailures >= MAX_SYNC_RETRIES

\* ---- C29 -----------------------------------------------------------------

\* the notes the item under DIRTY_KEY has an entry for
PersistedIds(item) ==
  IF item.present THEN (DOMAIN item.positions) \cup (DOMAIN item.content) ELSE {}

\* C29: the durable record keeps its entry for note n until a successful batch
\* response acknowledges n, the note is deleted, or the record is discarded as
\* stale (a newer persist of n keeps an entry for n); in particular
\* restoreDirtyState leaves the record in place while the recovery flush is out
C29_DurableRecordOutlivesRecovery ==
  [][\A n \in PersistedIds(persisted) \ PersistedIds(persisted') :
       \/ ev' \in {"synced", "partial"} /\ n \in done'.records
       \/ ev' = "stale"
       \/ n \notin DOMAIN notes']_vars

\* ---- C30 -----------------------------------------------------------------

\* C30: the finally block of an invocation cancels no safety timeout but its
\* own, and does not set state.saving to false while the request of another
\* invocation is out
C30_FlushOwnsTimeoutAndFlag ==
  [][done' # NoFlight =>
       /\ armedTimeouts \ armedTimeouts' \subseteq {done'.fid}
       /\ flights' # {} => ~(saving /\ ~saving')]_vars

\* ---- C31 -----------------------------------------------------------------

\* C31: an invocation of flushAllDirty that sent a request adds at most 1 to
\* consecutiveSyncFailures, whatever its outcome (safety timeout, late
\* response, error): the counter never exceeds the number of requests sent,
\* and MAX_SYNC_RETRIES failures take that many requests
C31_OneFailureCountedOnce ==
  /\ consecutiveSyncFailures <= nSends
  /\ consecutiveSyncFailures >= MAX_SYNC_RETRIES => nSends >= MAX_SYNC_RETRIES

\* ---- C32 -----------------------------------------------------------------

\* C32: the failure counter stays between 0 and MAX_SYNC_RETRIES in every
\* reachable state
C32_FailureCounterInRange ==
  consecutiveSyncFailures >= 0 /\ consecutiveSyncFailures <= MAX_SYNC_RETRIES

\* ---- C33 -----------------------------------------------------------------

\* C33: restoreDirtyState leaves every entry that dirtyPositions or
\* dirtyContent already has as it is, adds entries only for note ids that the
\* map lacks and the persisted record has, and removes the persisted record
C33_RecoveryKeepsNewerEdits ==
  [][(page = "loading" /\ page' = "running") =>
       /\ \A n \in DOMAIN dirtyPositions :
            n \in DOMAIN dirtyPositions' /\ dirtyPositions'[n] = dirtyPositions[n]
       /\ \A n \in DOMAIN dirtyContent :
            n \in DOMAIN dirtyContent' /\ dirtyContent'[n] = dirtyContent[n]
       /\ (DOMAIN dirtyPositions') \ (DOMAIN dirtyPositions) \subseteq
            (IF persisted.present THEN DOMAIN persisted.positions ELSE {})
       /\ (DOMAIN dirtyContent') \ (DOMAIN dirtyContent) \subseteq
            (IF persisted.present THEN DOMAIN persisted.content ELSE {})
       /\ ~persisted'.present]_vars

\* the record of the old page was restored into a ledger that already held a
\* different, newer entry for note 1, and that entry is the one kept
C33_Witness ==
  /\ ev = "restored" /\ page = "running" /\ nLoads = 1 /\ ~persisted.present
  /\ beacon.present /\ 1 \in DOMAIN beacon.sentPositions
  /\ 1 \in DOMAIN dirtyPositions /\ dirtyPositions[1] # beacon.sentPositions[1]

\* ---- C34 -----------------------------------------------------------------

\* C34: while a page is there, every key of dirtyPositions and of
\* dirtyContent is the id of a note in state.notes, also after a delete, a
\* reload of the list and crash recovery
C34_LedgerNamesExistingNotes ==
  page # "unloaded" =>
    (DOMAIN dirtyPositions) \cup (DOMAIN dirtyContent) \subseteq DOMAIN notes

\* ---- C35 -----------------------------------------------------------------

\* C35: when the response to a batch request reports every sent id under
\* records with no errors, and no edit happened while the request was out,
\* then after the invocation's continuation dirtyPositions and dirtyContent
\* are empty, consecutiveSyncFailures is 0, state.saving is false and the
\* item under DIRTY_KEY is removed
C35_SuccessLeavesNothingBehind ==
  [][(/\ done' # NoFlight /\ ev' = "synced"
      /\ done'.records = RecordIds(done'.sentPositions, done'.sentContent)
      /\ done'.edited = {})
       => /\ DOMAIN dirtyPositions' = {} /\ DOMAIN dirtyContent' = {}
          /\ consecutiveSyncFailures' = 0
          /\ ~saving'
          /\ ~persisted'.present]_vars

\* ---- C36 -----------------------------------------------------------------

\* C36: a call of flushAllDirty that finds dirtyPositions and dirtyContent
\* empty sends no request, leaves state.saving as it is, starts no safety
\* timeout, leaves consecutiveSyncFailures as it is (the reset of saveAll is
\* not flushAllDirty's), and returns with no sync timer armed
C36_EmptyFlushIsNoOp ==
  [][(LedgerEmpty /\ ev' \in {"sent", "busy", "empty"})
       => /\ ev' = "empty"
          /\ nSends' = nSends /\ flights' = flights
          /\ saving' = saving
          /\ armedTimeouts' = armedTimeouts /\ saveTimeoutTimer' = saveTimeoutTimer
          /\ (consecutiveSyncFailures' = consecutiveSyncFailures \/ SaveAll)
          /\ ~syncTimer'
          /\ LedgerEmpty']_vars

\* flushAllDirty was called after the one request of the run had cleared the
\* ledger, and did nothing
C36_Witness ==
  /\ ev = "empty" /\ LedgerEmpty /\ nSends = 1 /\ nEdits >= 1
  /\ flights = {} /\ ~saving /\ ~syncTimer /\ armedTimeouts = {}

\* ---- C37 -----------------------------------------------------------------

\* C37: when the PATCH of flushContentSave for a note fails, dirtyContent of
\* that note afterwards holds, for each of its fields, the value the user
\* typed last (the one the note on the page shows), and a field typed while
\* the request was in flight keeps the value it had before the catch block
C37_FailedSaveKeepsNewestText ==
  [][ev' = "requeued"
       => \A p \in patches \ patches' :
            /\ p.note \in DOMAIN dirtyContent'
            /\ \A F \in DOMAIN dirtyContent'[p.note] :
                 /\ p.note \in DOMAIN notes'
                      => dirtyContent'[p.note][F] = notes'[p.note][F]
                 /\ (p.note \in DOMAIN dirtyContent /\ F \in DOMAIN dirtyContent[p.note])
                      => dirtyContent'[p.note][F] = dirtyContent[p.note][F]]_vars

\* ---- C38 -----------------------------------------------------------------

\* C38: when flushPositions completes successfully, every note whose
\* position a drag set or changed while the batch request was in flight is
\* still in dirtyPositions with the new position; and a flushPositions call
\* that finds state.saving true with positions pending returns with the idle
\* timer armed
C38_PositionFlushLosesNothing ==
  [][/\ ev' = "synced"
          => \A n \in DOMAIN dirtyPositions :
               (n \notin DOMAIN done'.sentPositions
                  \/ dirtyPositions[n] # done'.sentPositions[n])
                 => /\ n \in DOMAIN dirtyPositions'
                    /\ dirtyPositions'[n] = dirtyPositions[n]
     /\ (ev' = "positions" /\ saving /\ DOMAIN dirtyPositions # {})
          => syncTimer']_vars

TypeOK ==
  /\ saving \in BOOLEAN /\ syncTimer \in BOOLEAN
  /\ saveTimeoutTimer \in Nat
  /\ armedTimeouts \subseteq 1..nSends
  /\ consecutiveSyncFailures \in Nat
  /\ DOMAIN dirtyPositions \subseteq Notes /\ DOMAIN dirtyContent \subseteq Notes

====
